---- MODULE Spec2Model ----
(***************************************************************************)
(* Plan Creator extension: the review session of the create_plan tool.    *)
(*                                                                         *)
(*   index.ts  (execute, finish, cleanup, planToMarkdown, openUrl)         *)
(*   server.ts (startPlanServer: idle timer, request handler, close)       *)
(*                                                                         *)
(* Time is counted in milliseconds.  Every timer holds the time left      *)
(* until it is due; Advance lets time pass, never past a due timer.       *)
(***************************************************************************)
EXTENDS Integers, Sequences, FiniteSets, TLC

\* ===== Program constants =====

\* timeout: 600 passed to startPlanServer (seconds)
timeout == 600
\* setTimeout(..., 500) between the acknowledgement and the callback (ms)
GraceDelay == 500
\* setTimeout(..., timeout * 1000) of resetTimeout (ms)
TimeoutMs == timeout * 1000

\* ===== Bounds of the model =====

\* HTTP requests handled by one server instance
MaxRequests == 2
\* phases of a generated plan (rendering specification)
MaxPhases == 3
\* heartbeat periods the heartbeat specification follows a session for
MaxTicks == 55
\* context files of one create_plan call
MaxFiles == 2
\* characters of a task description
MaxTaskLen == 2
\* pieces of a response text
MaxPieces == 4
\* pages one server instance serves (page specification)
MaxPages == 2
\* pieces of the plan title and of the working directory (page specification)
MaxTextLen == 2

\* ===== Values =====

\* the value of a timer that is not pending
Off == -1

\* JavaScript truthiness of an optional string field; Undefined stands for
\* a field that is missing from the parsed object
Undefined == "<undefined>"
Truthy(s) == s \notin {"", Undefined}

\* optional array field: present (any array, also the empty one, is truthy)
\* or missing / null
Some(seq) == [present |-> TRUE, val |-> seq]
None == [present |-> FALSE, val |-> <<>>]

\* JSON values a request body can parse to.  A falsy value (null, 0, "",
\* false) makes `!review` true; every other value is read through its
\* fields, a missing field reading as undefined.
JFalsy ==
  [kind |-> "falsy", decision |-> Undefined, selectedPhases |-> None,
   requirements |-> <<>>, constraints |-> <<>>, notes |-> Undefined]
JObject(decision, selectedPhases, notes) ==
  [kind |-> "object", decision |-> decision, selectedPhases |-> selectedPhases,
   requirements |-> <<>>, constraints |-> <<>>, notes |-> notes]

\* The `review` argument of finish / planToMarkdown: null (undefined) or
\* a parsed value
NoReview == JFalsy

\* a request body: text that JSON.parse accepts (and the value it yields) or
\* text it rejects
Body(syntax, value) == [syntax |-> syntax, value |-> value]
Garbage == Body("invalid", JFalsy)

\* JSON.parse(body): throws on text that is not JSON
JSONParse(body) ==
  IF body.syntax = "json" THEN [ok |-> TRUE, value |-> body.value]
  ELSE [ok |-> FALSE, value |-> JFalsy]

\* ===== planToMarkdown =====

Line(kind, num, text) == [kind |-> kind, num |-> num, text |-> text]
Blank == Line("blank", 0, "")

\* for (const item of items) lines.push(`<prefix> ${item}`)
Bullets(kind, items) == [i \in 1..Len(items) |-> Line(kind, 0, items[i])]

\* plan.phases.map((p) => p.number)
PhaseNumbers(plan) == [i \in 1..Len(plan.phases) |-> plan.phases[i].number]

\* Array.prototype.includes
Includes(seq, x) == \E i \in 1..Len(seq) : seq[i] = x

\* review?.selectedPhases || plan.phases.map((p) => p.number)
EffectiveSelected(plan, review) ==
  IF review.kind = "object" /\ review.selectedPhases.present
  THEN review.selectedPhases.val
  ELSE PhaseNumbers(plan)

\* a phase that is not included, dropped without a trace
ExcludedStub_dropped(phase) == <<>>

\* if (!included) { "*This phase was excluded ...*"; continue }
ExcludedStub(phase) == <<Line("excluded", phase.number, ""), Blank>>

\* the body of the loop over plan.phases
PhaseBlock(phase, selectedPhases) ==
  LET included == Includes(selectedPhases, phase.number)
      status == IF included THEN "ok" ELSE "skipped"
      header == <<Line("phaseHeader", phase.number, status), Blank>>
  IN IF ~included
     THEN header \o ExcludedStub(phase)
     ELSE header
          \o <<Line("description", phase.number, phase.description), Blank>>
          \o (IF Len(phase.tasks) > 0
              THEN <<Line("tasksTitle", 0, "")>> \o Bullets("task", phase.tasks) \o <<Blank>>
              ELSE <<>>)
          \o <<Line("criteriaTitle", 0, ""), Blank>>
          \o (IF Len(phase.automated) > 0
              THEN <<Line("automatedTitle", 0, "")>> \o Bullets("criterion", phase.automated)
              ELSE <<>>)
          \o (IF Len(phase.manual) > 0
              THEN <<Blank, Line("manualTitle", 0, "")>> \o Bullets("criterion", phase.manual)
              ELSE <<>>)
          \o <<Blank>>
          \o (IF Truthy(phase.implementationNotes)
              THEN <<Line("implementationNote", 0, phase.implementationNotes), Blank>>
              ELSE <<>>)
          \o <<Line("rule", 0, ""), Blank>>

RECURSIVE PhaseBlocks(_, _)
PhaseBlocks(phases, selectedPhases) ==
  IF phases = <<>> THEN <<>>
  ELSE PhaseBlock(Head(phases), selectedPhases) \o PhaseBlocks(Tail(phases), selectedPhases)

StatusText(decision) ==
  IF decision = "approve" THEN "Approved"
  ELSE IF decision = "modify" THEN "Approved with modifications"
  ELSE "Rejected"

Section(kind, items) ==
  IF Len(items) > 0 THEN <<Line(kind, 0, ""), Blank>> \o Bullets("item", items) \o <<Blank>>
  ELSE <<>>

planToMarkdown(plan, review) ==
  <<Line("title", 0, plan.title), Blank>>
  \o (IF review.kind = "object"
      THEN <<Line("status", 0, StatusText(review.decision)),
             Line("priority", 0, ""), Line("approach", 0, ""), Blank>>
      ELSE <<>>)
  \o <<Line("overviewTitle", 0, ""), Blank, Line("overview", 0, plan.overview), Blank>>
  \o (IF Truthy(plan.currentState)
      THEN <<Line("currentStateTitle", 0, ""), Blank, Line("text", 0, plan.currentState), Blank>>
      ELSE <<>>)
  \o (IF Truthy(plan.desiredEndState)
      THEN <<Line("desiredEndStateTitle", 0, ""), Blank, Line("text", 0, plan.desiredEndState), Blank>>
      ELSE <<>>)
  \o Section("outOfScopeTitle", plan.outOfScope)
  \o <<Line("phasesTitle", 0, ""), Blank>>
  \o PhaseBlocks(plan.phases, EffectiveSelected(plan, review))
  \o (IF plan.testingStrategy.present
      THEN <<Line("testingTitle", 0, ""), Blank>>
           \o (IF Len(plan.testingStrategy.unit) > 0
               THEN <<Line("unitTitle", 0, "")>> \o Bullets("item", plan.testingStrategy.unit) \o <<Blank>>
               ELSE <<>>)
           \o (IF Len(plan.testingStrategy.integration) > 0
               THEN <<Line("integrationTitle", 0, "")>> \o Bullets("item", plan.testingStrategy.integration) \o <<Blank>>
               ELSE <<>>)
           \o (IF Len(plan.testingStrategy.manual) > 0
               THEN <<Line("manualTestingTitle", 0, "")>> \o Bullets("item", plan.testingStrategy.manual) \o <<Blank>>
               ELSE <<>>)
      ELSE <<>>)
  \o (IF review.kind = "object" THEN Section("requirementsTitle", review.requirements) ELSE <<>>)
  \o (IF review.kind = "object" THEN Section("constraintsTitle", review.constraints) ELSE <<>>)
  \o (IF review.kind = "object" /\ Truthy(review.notes)
      THEN <<Line("userNotesTitle", 0, ""), Blank, Line("text", 0, review.notes), Blank>>
      ELSE <<>>)
  \o Section("referencesTitle", plan.references)
  \o <<Line("rule", 0, ""), Line("generated", 0, "")>>


\* ===== Inputs =====

\* the phases of a plan are whatever the text-generation service returned
Phase(number, full) ==
  [number |-> number, name |-> "phase",
   description |-> "description",
   tasks |-> IF full THEN <<"task">> ELSE <<>>,
   automated |-> IF full THEN <<"npm test">> ELSE <<>>,
   manual |-> IF full THEN <<"look at it">> ELSE <<>>,
   implementationNotes |-> IF full THEN "note" ELSE Undefined]

Plan(title, phases, extras) ==
  [title |-> title, overview |-> "overview",
   currentState |-> IF extras THEN "now" ELSE Undefined,
   desiredEndState |-> IF extras THEN "then" ELSE Undefined,
   outOfScope |-> IF extras THEN <<"nothing">> ELSE <<>>,
   phases |-> phases,
   testingStrategy |-> [present |-> extras, unit |-> IF extras THEN <<"unit">> ELSE <<>>,
                        integration |-> <<>>, manual |-> IF extras THEN <<"manual">> ELSE <<>>],
   references |-> IF extras THEN <<"ref">> ELSE <<>>]

\* the plan under review in the session specification
SessionPlan == Plan("Add rate limiting", <<Phase(1, TRUE), Phase(2, FALSE)>>, FALSE)

\* bodies a client can POST to /submit
Bodies ==
  { Body("json", JObject("approve", Some(<<1, 2>>), "")),
    Body("json", JObject("approve", Some(<<>>), "")),
    Body("json", JObject("modify", Some(<<2>>), "note")),
    Body("json", JObject("reject", Some(<<1, 2>>), "why")),
    Body("json", JObject("reject", Some(<<1, 2>>), "")),
    Body("json", JObject("maybe", None, Undefined)),
    Body("json", JFalsy),
    Garbage }

\* ===== State =====

VARIABLES
  pc,            \* position of the promise chain of execute
  plan,          \* the generated plan
  resolved,      \* execute: let resolved
  server,        \* execute: let server (TRUE: a handle is held, FALSE: null)
  settled,       \* the result the tool-call promise was resolved with
  files,         \* artifact files written by writeFileSync
  threw,         \* finish threw after passing its guard
  aborted,       \* the abort event of the caller's signal was dispatched
  httpServer,    \* the http.Server of startPlanServer
  timeoutId,     \* time left of the idle timer, Off when it is not pending
  graceTimers,   \* pending setTimeout(..., 500) callbacks, oldest first
  conn,          \* a connection accepted while listening is still open
  nReq,          \* requests handled so far
  lastExchange,  \* the last request handled and the response written to it
  hist,          \* history: what happened, for stating the properties
  reviewArg,     \* rendering specification: the review argument
  rendered,      \* rendering specification: the document returned
  now,           \* Date.now() since the server was started, where a specification keeps time
  lastActivity,  \* startPlanServer: let lastActivity
  client,        \* the review page in the browser and its heartbeat interval
  gen,           \* generatePlan: the loader, the remote call and what done() was given
  fnArg,         \* specification of a function on its own: the argument
  fnResult       \* specification of a function on its own: what it returned

vars == <<pc, plan, resolved, server, settled, files, threw, aborted, httpServer,
          timeoutId, graceTimers, conn, nReq, lastExchange, hist, reviewArg, rendered,
          now, lastActivity, client, gen, fnArg, fnResult>>

\* what resolve(...) is called with: details.status, the head of the text,
\* details.review, details.savedPath (the number of the file, 0: none), the
\* reason of a rejection and the phaseSummary of an approval; plan: details.plan
\* is attached, error: details.error
Result(status, text, r, savedPath, reason, phaseSummary) ==
  [status |-> status, text |-> text, review |-> r, savedPath |-> savedPath,
   reason |-> reason, phaseSummary |-> phaseSummary, plan |-> status /= "none", error |-> ""]
NoResult == Result("none", "", NoReview, 0, "", <<>>)
NoEvent == [kind |-> "none", req |-> 0, value |-> NoReview]
NoExchange ==
  [req |-> 0, method |-> "", path |-> "", syntax |-> "", status |-> 0, body |-> "", remaining |-> 0]

InitHist ==
  [finishPasses |-> 0,     \* times finish went past `if (resolved) return`
   finishResolves |-> 0,   \* times finish called resolve(...)
   closeCalls |-> 0,       \* times handle.close() ran
   acks |-> {},            \* POST requests answered {success: true}
   invalid |-> {},         \* POST /submit requests answered 400
   invoked |-> {},         \* POST requests whose callback has run
   waited |-> {},          \* for how long those callbacks were delayed
   armed |-> 0,            \* idle timers set and neither cleared nor run
   first |-> NoEvent,      \* the first terminal event
   outcome |-> NoEvent]    \* the call of finish that passed the guard

\* a context file path: missing (existsSync false), unreadable (readFileSync
\* throws) or ok
File(name, state) == [name |-> name, state |-> state]

\* undefined where a string of characters is expected
NoString == <<Undefined>>

\* the prompt was not built
NoPrompt == [task |-> NoString, files |-> <<>>]

\* the arguments of a call: entry is "tool" (execute of create_plan) or
\* "command" (/create-plan, where task is args and typed what ctx.ui.input
\* returns); strings are sequences of characters
GenInput(entry, hasUI, model, task, contextFiles, typed) ==
  [entry |-> entry, hasUI |-> hasUI, model |-> model, task |-> task,
   contextFiles |-> contextFiles, typed |-> typed,
   stage |-> "idle",            \* position of doGenerate
   loaderAborted |-> FALSE,     \* loader.signal.aborted
   remote |-> "none",           \* the call of complete(...)
   doneCalls |-> 0,             \* calls of done
   result |-> "none",           \* what ctx.ui.custom resolved with: the argument of the first done
   callerAbortedAt |-> "never", \* stage at which the signal of execute fired
   notified |-> "",             \* ctx.ui.notify
   keyRequested |-> FALSE,      \* getApiKey was called
   prompt |-> NoPrompt,         \* userPrompt: the task and the file contents in it
   outcome |-> "none",          \* how doGenerate ended
   unhandled |-> FALSE,         \* doGenerate rejected and nothing handled it
   message |-> NoString]       \* pi.sendUserMessage

\* the loader of generatePlan, the remote call of doGenerate and the calls of
\* done, for the call create_plan({task: "x", contextFiles: ["a"]})
Gen(hasUI, model, stage, loaderAborted, remote, doneCalls, result, callerAbortedAt) ==
  [GenInput("tool", hasUI, model, <<"x">>, <<File("a", "ok")>>, NoString)
     EXCEPT !.stage = stage, !.loaderAborted = loaderAborted, !.remote = remote,
            !.doneCalls = doneCalls, !.result = result, !.callerAbortedAt = callerAbortedAt]

\* generatePlan returned a plan: the remote call completed, done(plan) ran once
GenDone ==
  [Gen(TRUE, TRUE, "done", FALSE, "completed", 1, "plan", "never")
     EXCEPT !.keyRequested = TRUE, !.outcome = "plan",
            !.prompt = [task |-> <<"x">>, files |-> <<"a">>]]

\* no review page is open
NoClient == [state |-> "none", since |-> 0, nextBeat |-> 0]

\* clearTimeout(tid): the number of pending timers it cancels
ClearTimeout(tid) == IF tid /= Off THEN 1 ELSE 0

\* the history after resetTimeout() ran with the idle timer tid
Rearmed(h, tid) == [h EXCEPT !.armed = @ - ClearTimeout(tid) + 1]

\* a resetTimeout that clears the idle timer and arms none
resetTimeout_unarmed == Off

\* resetTimeout(): the idle timer is (re)armed with the full timeout
resetTimeout == TimeoutMs

\* execute, from `return new Promise((resolve) => {` to the end of the
\* executor: the abort listener is registered and startPlanServer has run
\* up to server.listen, so the idle timer is armed
Init ==
  /\ pc = "starting"
  /\ plan = SessionPlan
  /\ resolved = FALSE
  /\ server = FALSE
  /\ settled = NoResult
  /\ files = <<>>
  /\ threw = FALSE
  /\ aborted = FALSE
  /\ httpServer = "pending"
  /\ timeoutId = resetTimeout
  /\ graceTimers = <<>>
  /\ conn = FALSE
  /\ nReq = 0
  /\ lastExchange = NoExchange
  /\ hist = Rearmed(InitHist, Off)
  /\ reviewArg = NoReview
  /\ rendered = <<>>
  /\ now = 0
  /\ lastActivity = 0
  /\ client = NoClient
  /\ gen = GenDone
  /\ fnArg = <<>>
  /\ fnResult = <<>>

\* ===== execute: cleanup, finish =====

\* Promise resolve: only the first call settles the promise
Resolve(p, result) == IF p.status = "none" THEN result ELSE p

\* a handle that is kept after it was closed
DropHandle_kept == TRUE

\* server = null, after server.close()
DropHandle == FALSE

\* a cleanup that leaves the handle open
cleanup_noClose(tid, hs, h) ==
  /\ timeoutId' = tid
  /\ hist' = h
  /\ server' = server
  /\ httpServer' = hs

\* cleanup(); tid and hs are the idle timer and the http server at the moment
\* of the call.  server.close() is ServerHandle.close: clearTimeout(timeoutId),
\* then http server.close()
cleanup(tid, hs, h) ==
  IF server
  THEN /\ server' = DropHandle
       /\ httpServer' = "closed"
       /\ timeoutId' = Off
       /\ hist' = [h EXCEPT !.closeCalls = @ + 1, !.armed = @ - ClearTimeout(tid)]
  ELSE /\ timeoutId' = tid
       /\ hist' = h
       /\ server' = server
       /\ httpServer' = hs

\* a rejection whose details leave the review out
RejectedResult_noReview(r) ==
  Result("rejected", "Plan rejected", NoReview, 0,
         IF r.kind = "object" /\ Truthy(r.notes) THEN r.notes ELSE "No reason provided", <<>>)

\* review?.notes || "No reason provided"
RejectedResult(r) ==
  Result("rejected", "Plan rejected", r, 0,
         IF r.kind = "object" /\ Truthy(r.notes) THEN r.notes ELSE "No reason provided", <<>>)

\* plan.phases.filter((p) => selectedPhases.includes(p.number))
phaseSummary(r) ==
  SelectSeq(PhaseNumbers(plan), LAMBDA n : Includes(EffectiveSelected(plan, r), n))

ApprovedResult(r, path) ==
  Result("approved", "Plan Approved", r, path, "", phaseSummary(r))

\* the promise and the files after the part of finish that follows cleanup()
finishBody(r, fsOk) ==
  IF r.kind = "falsy" \/ r.decision = "reject"
  THEN /\ settled' = Resolve(settled, RejectedResult(r))
       /\ UNCHANGED <<files, threw>>
  ELSE IF fsOk
       THEN /\ files' = Append(files, [content |-> planToMarkdown(plan, r)])
            /\ settled' = Resolve(settled, ApprovedResult(r, Len(files) + 1))
            /\ threw' = threw
       ELSE \* ensurePlansDir / writeFileSync threw
            /\ threw' = TRUE
            /\ UNCHANGED <<files, settled>>

\* a guard that never holds
AlreadyResolved_never == FALSE

\* if (resolved) return;
AlreadyResolved == resolved

\* finish(review), called by `src`; tid is the idle timer at the call, h the
\* history before it
finish(r, src, tid, h, fsOk) ==
  IF AlreadyResolved
  THEN /\ timeoutId' = tid
       /\ hist' = h
       /\ UNCHANGED <<resolved, server, httpServer, settled, files, threw>>
  ELSE /\ resolved' = TRUE
       /\ cleanup(tid, httpServer, [h EXCEPT !.finishPasses = @ + 1,
                                 !.finishResolves = IF r.kind = "falsy" \/ r.decision = "reject" \/ fsOk
                                                    THEN @ + 1 ELSE @,
                                 !.outcome = [kind |-> src, req |-> 0, value |-> r]])
       /\ finishBody(r, fsOk)


\* ===== execute: the promise chain and the abort listener =====

sessionVars == <<plan, reviewArg, rendered, now, client, gen, fnArg, fnResult>>

\* server.listen called back: startPlanServer resolves with the handle and
\* the .then callback stores it and calls openUrl
ListenOk ==
  /\ pc = "starting"
  /\ pc' = "opening"
  /\ httpServer' = "listening"
  /\ server' = TRUE
  /\ UNCHANGED <<resolved, settled, files, threw, aborted, timeoutId, graceTimers,
                 conn, nReq, lastExchange, hist>>
  /\ UNCHANGED <<sessionVars, lastActivity>>

\* server.on("error", reject): the .catch callback runs
ListenErr ==
  /\ pc = "starting"
  /\ pc' = "serverError"
  /\ cleanup(timeoutId, "error", hist)
  /\ settled' = Resolve(settled, Result("pending", "Server error", NoReview, 0, "", <<>>))
  /\ UNCHANGED <<resolved, files, threw, aborted, graceTimers, conn, nReq, lastExchange>>
  /\ UNCHANGED <<sessionVars, lastActivity>>

\* openUrl returned: pi.exec exited with code 0
OpenOk ==
  /\ pc = "opening"
  /\ pc' = "opened"
  /\ UNCHANGED <<resolved, server, settled, files, threw, aborted, httpServer, timeoutId,
                 graceTimers, conn, nReq, lastExchange, hist>>
  /\ UNCHANGED <<sessionVars, lastActivity>>

\* a launch failure reported as a rejection
LaunchFailed_rejected == Result("rejected", "Failed to open browser", NoReview, 0, "", <<>>)

\* what the catch block of the .then callback resolves with: text 'Failed to
\* open browser: ...', details { plan, status: "pending" }
LaunchFailed == Result("pending", "Failed to open browser", NoReview, 0, "", <<>>)

\* openUrl threw: the catch block of the .then callback
OpenFail ==
  /\ pc = "opening"
  /\ pc' = "launchFailed"
  /\ cleanup(timeoutId, httpServer, hist)
  /\ settled' = Resolve(settled, LaunchFailed)
  /\ UNCHANGED <<resolved, files, threw, aborted, graceTimers, conn, nReq, lastExchange>>
  /\ UNCHANGED <<sessionVars, lastActivity>>

\* the first terminal event of the session
NoteFirst(h, kind, req, value) ==
  IF h.first.kind = "none" THEN [h EXCEPT !.first = [kind |-> kind, req |-> req, value |-> value]]
  ELSE h

\* the executor of the promise has run: the abort listener is registered
InSession == pc \in {"starting", "opening", "opened", "launchFailed", "serverError"}

\* signal.addEventListener("abort", () => finish(null), { once: true })
Abort ==
  /\ InSession
  /\ ~aborted
  /\ aborted' = TRUE
  /\ \E fsOk \in BOOLEAN : finish(NoReview, "abort", timeoutId, NoteFirst(hist, "abort", 0, NoReview), fsOk)
  /\ UNCHANGED <<pc, graceTimers, conn, nReq, lastExchange>>
  /\ UNCHANGED <<sessionVars, lastActivity>>

\* ===== startPlanServer: timers =====

\* the idle timer is due: onCancel()
IdleFire ==
  /\ timeoutId = 0
  /\ \E fsOk \in BOOLEAN : finish(NoReview, "idle", Off,
                                   NoteFirst([hist EXCEPT !.armed = @ - 1], "idle", 0, NoReview), fsOk)
  /\ UNCHANGED <<pc, aborted, graceTimers, conn, nReq, lastExchange>>
  /\ UNCHANGED <<sessionVars, lastActivity>>

\* the oldest grace-delay timer is due: onSubmit(result) or onCancel()
GraceFire ==
  /\ graceTimers /= <<>>
  /\ Head(graceTimers).remaining = 0
  /\ graceTimers' = Tail(graceTimers)
  /\ LET t == Head(graceTimers)
         h == [hist EXCEPT !.invoked = @ \cup {t.req}, !.waited = @ \cup {t.waited}]
     IN \E fsOk \in BOOLEAN :
          IF t.kind = "submit"
          THEN finish(t.result, "submit", timeoutId, h, fsOk)
          ELSE finish(NoReview, "cancel", timeoutId, h, fsOk)
  /\ UNCHANGED <<pc, aborted, conn, nReq, lastExchange>>
  /\ UNCHANGED <<sessionVars, lastActivity>>

Min(S) == CHOOSE x \in S : \A y \in S : x <= y

\* the times left of the pending timers
Pending ==
  (IF timeoutId = Off THEN {} ELSE {timeoutId})
  \cup {graceTimers[i].remaining : i \in 1..Len(graceTimers)}

\* time passes: up to the next due timer, by half the idle timeout, or,
\* while a grace-delay timer is pending, by half a grace delay; never past
\* a due timer.  No time passes between
\* server.listen and its callback: "listening" and "error" are emitted on
\* the next tick of the event loop.
Advance ==
  /\ pc /= "starting"
  /\ Pending /= {}
  /\ \E d \in {Min(Pending), TimeoutMs \div 2}
              \cup (IF graceTimers /= <<>> THEN {GraceDelay \div 2} ELSE {}) :
       /\ d > 0
       /\ d <= Min(Pending)
       /\ timeoutId' = IF timeoutId = Off THEN Off ELSE timeoutId - d
       /\ graceTimers' = [i \in 1..Len(graceTimers) |->
                            [graceTimers[i] EXCEPT !.remaining = @ - d, !.waited = @ + d]]
  /\ UNCHANGED <<pc, resolved, server, settled, files, threw, aborted, httpServer,
                 conn, nReq, lastExchange, hist>>
  /\ UNCHANGED <<sessionVars, lastActivity>>


\* ===== startPlanServer: the request handler =====

\* a request reaches the handler: the server listens, or the request comes
\* over a connection that was accepted before server.close()
CanHandle ==
  /\ nReq < MaxRequests
  /\ \/ httpServer = "listening"
     \/ httpServer = "closed" /\ conn

Exchange(method, path, syntax, status, body, remaining) ==
  [req |-> nReq + 1, method |-> method, path |-> path, syntax |-> syntax,
   status |-> status, body |-> body, remaining |-> remaining]
Response(method, path, status, body, remaining) ==
  Exchange(method, path, "", status, body, remaining)

Handled(resp) ==
  /\ nReq' = nReq + 1
  /\ conn' = TRUE
  /\ lastExchange' = resp

GetPaths == {"/", "/index.html", "/styles.css", "/script.js", "/heartbeat", "/favicon.ico"}

\* the time (ms) that passes inside the handler between the Date.now() of
\* resetTimeout and the Date.now() of the answer: less than a second
HandlerElapsed == {0, 1, 999}

\* Math.max(0, timeout - Math.floor((at - last) / 1000))
Remaining(last, at) ==
  LET r == timeout - ((at - last) \div 1000) IN IF r > 0 THEN r ELSE 0

\* a reset that leaves lastActivity as it was
ResetActivity_stale(last, at) == last

\* lastActivity as the /heartbeat branch reads it: resetTimeout() has set it
\* to Date.now(), `at`; `last` is what it held before the request
ResetActivity(last, at) == at

\* what a GET answers; exists: existsSync of the file the path is served
\* from, elapsed: the time between the reset and the answer
GetResponse(path, exists, elapsed) ==
  IF path \in {"/", "/index.html"}
  THEN IF exists THEN Response("GET", path, 200, "html", 0)
       ELSE Response("GET", path, 500, "Form HTML not found", 0)
  ELSE IF path = "/styles.css" /\ exists THEN Response("GET", path, 200, "css", 0)
  ELSE IF path = "/script.js" /\ exists THEN Response("GET", path, 200, "js", 0)
  ELSE IF path = "/heartbeat"
       THEN Response("GET", path, 200, "heartbeat",
                     Remaining(ResetActivity(lastActivity, now), now + elapsed))
  ELSE Response("GET", path, 404, "Not Found", 0)

\* if (req.method === "OPTIONS")
Options ==
  /\ CanHandle
  /\ Handled(Response("OPTIONS", "/", 200, "", 0))
  /\ UNCHANGED <<pc, resolved, server, settled, files, threw, aborted, httpServer,
                 timeoutId, graceTimers, hist>>
  /\ UNCHANGED <<sessionVars, lastActivity>>

\* if (req.method === "GET"): resetTimeout(), then the response by path
\* a GET branch whose 404 answers leave the idle timer alone
GetHandler_notFoundSkips(path, exists) ==
  /\ \E elapsed \in HandlerElapsed : Handled(GetResponse(path, exists, elapsed))
  /\ IF GetResponse(path, exists, 0).status = 404
     THEN UNCHANGED <<hist, timeoutId, lastActivity>>
     ELSE /\ hist' = IF path = "/heartbeat"
                     THEN Rearmed(Rearmed(hist, timeoutId), resetTimeout)
                     ELSE Rearmed(hist, timeoutId)
          /\ timeoutId' = resetTimeout
          /\ lastActivity' = now

\* the GET branch of the request handler: resetTimeout(), then the response
\* by path; /heartbeat calls resetTimeout() once more
GetHandler(path, exists) ==
  /\ \E elapsed \in HandlerElapsed : Handled(GetResponse(path, exists, elapsed))
  /\ hist' = IF path = "/heartbeat"
             THEN Rearmed(Rearmed(hist, timeoutId), resetTimeout)
             ELSE Rearmed(hist, timeoutId)
  /\ timeoutId' = resetTimeout
  /\ lastActivity' = now

\* a GET request with any path
Get ==
  /\ CanHandle
  /\ \E path \in GetPaths, exists \in BOOLEAN :
       /\ exists \/ path \in {"/", "/styles.css", "/script.js"}
       /\ GetHandler(path, exists)
  /\ UNCHANGED <<pc, resolved, server, settled, files, threw, aborted, httpServer,
                 graceTimers>>
  /\ UNCHANGED sessionVars

\* the callback scheduled with no delay
GraceTimer_noDelay(kind, result) ==
  [kind |-> kind, req |-> nReq + 1, result |-> result, remaining |-> 0, waited |-> 0]

\* setTimeout(() => { onSubmit(result) | onCancel() }, 500); waited is the
\* time since the timer was set
GraceTimer(kind, result) ==
  [kind |-> kind, req |-> nReq + 1, result |-> result, remaining |-> GraceDelay, waited |-> 0]

\* the "end" listener with clearTimeout moved in front of the try block
SubmitEnd_clearFirst(body) ==
  LET parsed == JSONParse(body)
  IN /\ timeoutId' = Off
     /\ IF parsed.ok
        THEN /\ Handled(Exchange("POST", "/submit", body.syntax, 200, "success", 0))
             /\ graceTimers' = Append(graceTimers, GraceTimer("submit", parsed.value))
             /\ hist' = [NoteFirst(hist, "submit", nReq + 1, parsed.value)
                           EXCEPT !.acks = @ \cup {nReq + 1}, !.armed = @ - ClearTimeout(timeoutId)]
        ELSE /\ Handled(Exchange("POST", "/submit", body.syntax, 400, "Invalid JSON", 0))
             /\ hist' = [hist EXCEPT !.invalid = @ \cup {nReq + 1}]
             /\ UNCHANGED graceTimers

\* req.on("end", ...) of POST /submit: try { JSON.parse; clearTimeout; 200;
\* setTimeout } catch { 400 }
SubmitEnd(body) ==
  LET parsed == JSONParse(body)
  IN IF parsed.ok
     THEN /\ timeoutId' = Off
          /\ Handled(Exchange("POST", "/submit", body.syntax, 200, "success", 0))
          /\ graceTimers' = Append(graceTimers, GraceTimer("submit", parsed.value))
          /\ hist' = [NoteFirst(hist, "submit", nReq + 1, parsed.value)
                        EXCEPT !.acks = @ \cup {nReq + 1}, !.armed = @ - ClearTimeout(timeoutId)]
     ELSE /\ Handled(Exchange("POST", "/submit", body.syntax, 400, "Invalid JSON", 0))
          /\ hist' = [hist EXCEPT !.invalid = @ \cup {nReq + 1}]
          /\ UNCHANGED <<timeoutId, graceTimers>>

\* POST /submit
PostSubmit ==
  /\ CanHandle
  /\ \E body \in Bodies : SubmitEnd(body)
  /\ UNCHANGED <<pc, resolved, server, settled, files, threw, aborted, httpServer>>
  /\ UNCHANGED <<sessionVars, lastActivity>>

\* POST /cancel
PostCancel ==
  /\ CanHandle
  /\ timeoutId' = Off
  /\ Handled(Response("POST", "/cancel", 200, "success", 0))
  /\ graceTimers' = Append(graceTimers, GraceTimer("cancel", NoReview))
  /\ hist' = [NoteFirst(hist, "cancel", nReq + 1, NoReview)
                EXCEPT !.acks = @ \cup {nReq + 1}, !.armed = @ - ClearTimeout(timeoutId)]
  /\ UNCHANGED <<pc, resolved, server, settled, files, threw, aborted, httpServer>>
  /\ UNCHANGED <<sessionVars, lastActivity>>

\* 404 for everything else
NotFound ==
  /\ CanHandle
  /\ \E r \in {<<"POST", "/">>, <<"PUT", "/submit">>} :
       Handled(Response(r[1], r[2], 404, "Not Found", 0))
  /\ UNCHANGED <<pc, resolved, server, settled, files, threw, aborted, httpServer,
                 timeoutId, graceTimers, hist>>
  /\ UNCHANGED <<sessionVars, lastActivity>>

\* ===== Specification of a review session =====

Next ==
  \/ ListenOk \/ ListenErr \/ OpenOk \/ OpenFail \/ Abort
  \/ IdleFire \/ GraceFire \/ Advance
  \/ Options \/ Get \/ PostSubmit \/ PostCancel \/ NotFound

Spec == Init /\ [][Next]_vars

\* The event loop runs the callback of a due timer, time passes while a
\* timer is pending, and server.listen calls back or reports an error.
Fairness ==
  /\ WF_vars(ListenOk \/ ListenErr)
  /\ WF_vars(Advance)
  /\ WF_vars(IdleFire)
  /\ WF_vars(GraceFire)

FairSpec == Init /\ [][Next]_vars /\ Fairness

\* ===== Specification of planToMarkdown on its own =====

SeqsUpTo(S, n) == UNION {[1..k -> S] : k \in 0..n}

RenderPlans ==
  {Plan("title", phases, extras) :
     phases \in SeqsUpTo({Phase(n, full) : n \in 1..MaxPhases, full \in BOOLEAN}, MaxPhases),
     extras \in BOOLEAN}

RenderReviews ==
  {NoReview}
  \cup {JObject("approve", sel, "note") :
          sel \in {None, Some([i \in 1..MaxPhases |-> i])}
                  \cup {Some(q) : q \in SeqsUpTo(1..MaxPhases, 2)}}

RenderInit ==
  /\ pc = "rendering"
  /\ plan \in RenderPlans
  /\ reviewArg \in RenderReviews
  /\ rendered = <<>>
  /\ resolved = FALSE
  /\ server = FALSE
  /\ settled = NoResult
  /\ files = <<>>
  /\ threw = FALSE
  /\ aborted = FALSE
  /\ httpServer = "pending"
  /\ timeoutId = Off
  /\ graceTimers = <<>>
  /\ conn = FALSE
  /\ nReq = 0
  /\ lastExchange = NoExchange
  /\ hist = InitHist
  /\ now = 0
  /\ lastActivity = 0
  /\ client = NoClient
  /\ gen = GenDone
  /\ fnArg = <<>>
  /\ fnResult = <<>>

Render ==
  /\ pc = "rendering"
  /\ pc' = "rendered"
  /\ rendered' = planToMarkdown(plan, reviewArg)
  /\ UNCHANGED <<plan, reviewArg, resolved, server, settled, files, threw, aborted,
                 httpServer, timeoutId, graceTimers, conn, nReq, lastExchange, hist,
                 now, lastActivity, client, gen, fnArg, fnResult>>

RenderNext == Render

RenderSpec == RenderInit /\ [][RenderNext]_vars

\* ===== Specification of a session kept alive by the heartbeat of the page =====

\* the period of the heartbeat: a tenth of the idle timeout
BeatEvery == TimeoutMs \div 10

\* the browser loads the page: GET /, and script.js starts its heartbeat
\* interval (startHeartbeat)
PageOpen ==
  /\ pc = "opened"
  /\ httpServer = "listening"
  /\ client.state = "none"
  /\ GetHandler("/", TRUE)
  /\ client' = [state |-> "alive", since |-> now, nextBeat |-> now + BeatEvery]
  /\ UNCHANGED <<pc, plan, resolved, server, settled, files, threw, aborted, httpServer,
                 graceTimers, reviewArg, rendered, now, gen, fnArg, fnResult>>

\* a heartbeat whose request does not re-arm the idle timer
Beat_noReset ==
  /\ client.state = "alive"
  /\ client.nextBeat = now
  /\ httpServer = "listening" \/ (httpServer = "closed" /\ conn)
  /\ \E elapsed \in HandlerElapsed : Handled(GetResponse("/heartbeat", TRUE, elapsed))
  /\ client' = [client EXCEPT !.nextBeat = now + BeatEvery]
  /\ UNCHANGED <<pc, plan, resolved, server, settled, files, threw, aborted, httpServer,
                 graceTimers, reviewArg, rendered, now, gen, hist, timeoutId, lastActivity,
                 fnArg, fnResult>>

\* the heartbeat interval of the page fires: fetch('/heartbeat'), handled by
\* the GET branch of the server
Beat ==
  /\ client.state = "alive"
  /\ client.nextBeat = now
  /\ httpServer = "listening" \/ (httpServer = "closed" /\ conn)
  /\ GetHandler("/heartbeat", TRUE)
  /\ client' = [client EXCEPT !.nextBeat = now + BeatEvery]
  /\ UNCHANGED <<pc, plan, resolved, server, settled, files, threw, aborted, httpServer,
                 graceTimers, reviewArg, rendered, now, gen, fnArg, fnResult>>

\* the page is closed without a submit or a cancel: its interval is gone
ClientGone ==
  /\ client.state = "alive"
  /\ client' = [client EXCEPT !.state = "gone"]
  /\ UNCHANGED <<pc, plan, resolved, server, settled, files, threw, aborted, httpServer,
                 timeoutId, graceTimers, conn, nReq, lastExchange, hist, reviewArg, rendered,
                 now, lastActivity, gen, fnArg, fnResult>>

\* a heartbeat period passes; a due timer or a due heartbeat runs first
Tick ==
  /\ pc /= "starting"
  /\ now < MaxTicks * BeatEvery
  /\ Pending /= {}
  /\ BeatEvery <= Min(Pending)
  /\ client.state = "alive" => client.nextBeat > now
  /\ now' = now + BeatEvery
  /\ timeoutId' = IF timeoutId = Off THEN Off ELSE timeoutId - BeatEvery
  /\ graceTimers' = [i \in 1..Len(graceTimers) |->
                       [graceTimers[i] EXCEPT !.remaining = @ - BeatEvery, !.waited = @ + BeatEvery]]
  /\ UNCHANGED <<pc, plan, resolved, server, settled, files, threw, aborted, httpServer,
                 conn, nReq, lastExchange, hist, reviewArg, rendered, lastActivity, client, gen,
                 fnArg, fnResult>>

HeartbeatNext ==
  \/ ListenOk \/ OpenOk \/ PageOpen \/ Beat \/ ClientGone \/ Tick \/ IdleFire

HeartbeatSpec == Init /\ [][HeartbeatNext]_vars

\* ===== Specification of execute from its call: generation, then the session =====

ErrorResult(text, code) ==
  [Result("error", text, NoReview, 0, "", <<>>) EXCEPT !.plan = FALSE, !.error = code]

\* `if (!plan)` of execute
GenerationFailed ==
  ErrorResult("Failed to generate plan. Please try again with more details.", "generation-failed")

\* `if (signal?.aborted)` of execute
AbortedAfterGeneration == Result("pending", "Plan generation was aborted.", NoReview, 0, "", <<>>)

\* done(v): ctx.ui.custom resolves with the argument of the first call
Done(g, v) == [g EXCEPT !.doneCalls = @ + 1, !.result = IF @ = "none" THEN v ELSE @]

serverVars ==
  <<plan, resolved, server, files, threw, httpServer, timeoutId, graceTimers, conn, nReq,
    lastExchange, hist, reviewArg, rendered, now, lastActivity, client, fnArg, fnResult>>

ExecInit ==
  /\ pc = "execute"
  /\ gen \in {Gen(ui, m, "idle", FALSE, "none", 0, "none", "never") : ui \in BOOLEAN, m \in BOOLEAN}
  /\ fnArg = <<>>
  /\ fnResult = <<>>
  /\ plan = SessionPlan
  /\ resolved = FALSE
  /\ server = FALSE
  /\ settled = NoResult
  /\ files = <<>>
  /\ threw = FALSE
  /\ aborted = FALSE
  /\ httpServer = "none"
  /\ timeoutId = Off
  /\ graceTimers = <<>>
  /\ conn = FALSE
  /\ nReq = 0
  /\ lastExchange = NoExchange
  /\ hist = InitHist
  /\ reviewArg = NoReview
  /\ rendered = <<>>
  /\ now = 0
  /\ lastActivity = 0
  /\ client = NoClient

\* ----- the text of a response -----

\* A response text is a sequence of pieces: "prose" (no brace, no fence),
\* "braces" (prose that has braces in it, such as `{id}`, and is no JSON),
\* "fence" (three backticks, with or without `json`), "plan" (the JSON text
\* of a proposal object), "scalar" (the JSON text of a value that is no
\* object, such as 42) and "ws" (whitespace).
Pieces == {"prose", "braces", "fence", "plan", "scalar", "ws"}

IndicesOf(text, kinds) == {i \in 1..Len(text) : text[i] \in kinds}

Max(S) == CHOOSE x \in S : \A y \in S : x >= y

\* JSON.parse(str.trim()): whitespace around one JSON value is accepted
Parse(str) ==
  LET core == SelectSeq(str, LAMBDA t : t /= "ws")
  IN IF Len(core) = 1 /\ core[1] \in {"plan", "scalar"}
     THEN [ok |-> TRUE, value |-> core[1]]
     ELSE [ok |-> FALSE, value |-> "null"]

\* text.match of the fenced pattern: the first fence, lazily up to the next one
FencedMatch(text) ==
  LET f == IndicesOf(text, {"fence"})
  IN IF Cardinality(f) >= 2
     THEN [found |-> TRUE, group |-> SubSeq(text, Min(f) + 1, Min(f \ {Min(f)}) - 1)]
     ELSE [found |-> FALSE, group |-> <<>>]

\* text.match(/\{[\s\S]*\}/): from the first opening brace of the text to
\* its last closing brace
ObjMatch(text) ==
  LET b == IndicesOf(text, {"plan", "braces"})
  IN IF b = {} THEN [found |-> FALSE, group |-> <<>>]
     ELSE [found |-> TRUE, group |-> SubSeq(text, Min(b), Max(b))]

\* doGenerate from `let jsonStr = text` to its end: what it returns for a
\* response text ("null": null)
ExtractPlan(text) ==
  LET m == FencedMatch(text)
      jsonStr == IF m.found THEN m.group ELSE text
      first == Parse(jsonStr)
      o == ObjMatch(text)
  IN IF first.ok THEN first.value
     ELSE IF o.found /\ Parse(o.group).ok THEN Parse(o.group).value
     ELSE "null"

\* the response texts a generation of the session specifications may get
ResponseTexts ==
  { <<"prose", "fence", "plan", "fence">>, <<"prose", "plan">>, <<"prose">> }

\* ----- strings of the task description -----

Space == " "

RECURSIVE TrimStart(_)
TrimStart(str) ==
  IF str = <<>> THEN str
  ELSE IF Head(str) = Space THEN TrimStart(Tail(str)) ELSE str

RECURSIVE TrimEnd(_)
TrimEnd(str) ==
  IF str = <<>> THEN str
  ELSE IF str[Len(str)] = Space THEN TrimEnd(SubSeq(str, 1, Len(str) - 1)) ELSE str

\* String.prototype.trim
Trim(str) == TrimEnd(TrimStart(str))

\* `!str` of a string or undefined
Empty(str) == str = NoString \/ str = <<>>

\* ----- generatePlan -----

\* a file counts as readable unless reading it throws
Readable_ignoresMissing(f) == f.state /= "unreadable"

\* existsSync(file) holds and readFileSync(file) does not throw
Readable(f) == f.state = "ok"

\* fileContext: the files whose content is appended, in the order given
RECURSIVE BuildContext(_)
BuildContext(fs) ==
  IF fs = <<>> THEN <<>>
  ELSE (IF Readable(Head(fs)) THEN <<Head(fs).name>> ELSE <<>>) \o BuildContext(Tail(fs))

\* a check of ctx.model that never fails
ModelMissing_never(g) == FALSE

\* if (!ctx.model)
ModelMissing(g) == ~g.model

\* a rejection of doGenerate that nothing handles
OnThrow_uncaught(g) == [g EXCEPT !.unhandled = TRUE]

\* .catch(() => done(null))
OnThrow(g) == Done(g, "null")

\* execute up to the call of ctx.ui.custom in generatePlan: the context files
\* are read, the prompt is built, the loader is shown and doGenerate runs
\* up to `await getApiKey`
Begin ==
  /\ pc = "execute"
  /\ IF ~gen.hasUI
     THEN /\ pc' = "returned"
          /\ settled' = ErrorResult("Error: UI not available (running in non-interactive mode)", "no-ui")
          /\ gen' = gen
     ELSE IF ModelMissing(gen)
     THEN /\ pc' = "returned"
          /\ settled' = GenerationFailed
          /\ gen' = [gen EXCEPT !.notified = "No model selected"]
     ELSE /\ pc' = "generating"
          /\ gen' = [gen EXCEPT !.stage = "keying", !.keyRequested = TRUE,
                                !.prompt = [task |-> gen.task,
                                            files |-> BuildContext(gen.contextFiles)]]
          /\ settled' = settled
  /\ UNCHANGED aborted
  /\ UNCHANGED serverVars

\* doGenerate: await ctx.modelRegistry.getApiKey returned or threw; when it
\* returned, complete(...) is called with { apiKey, signal: loader.signal }
GetApiKey ==
  /\ gen.stage = "keying"
  /\ \E ok \in BOOLEAN :
       gen' = IF ok THEN [gen EXCEPT !.stage = "completing", !.remote = "running"]
              ELSE OnThrow([gen EXCEPT !.stage = "done", !.outcome = "keyThrew"])
  /\ UNCHANGED <<pc, settled, aborted>>
  /\ UNCHANGED serverVars

\* how the remote call may end: with a response text, with stopReason
\* "aborted" (only when the signal it was given has fired) or with an
\* exception
CompleteOutcomes ==
  {"text", "threw"} \cup (IF gen.loaderAborted THEN {"aborted"} ELSE {})

\* doGenerate: await complete(...) returned or threw; .then(done) or
\* .catch(() => done(null))
Complete ==
  /\ gen.stage = "completing"
  /\ \E o \in CompleteOutcomes, text \in ResponseTexts :
       gen' = CASE o = "threw" ->
                     OnThrow([gen EXCEPT !.stage = "done", !.remote = "failed", !.outcome = "threw"])
                [] o = "aborted" ->
                     Done([gen EXCEPT !.stage = "done", !.remote = "aborted", !.outcome = "aborted"],
                          "null")
                [] OTHER ->
                     Done([gen EXCEPT !.stage = "done", !.remote = "completed",
                                      !.outcome = IF ExtractPlan(text) = "null"
                                                  THEN "unparseable" ELSE "plan"],
                          ExtractPlan(text))
  /\ UNCHANGED <<pc, settled, aborted>>
  /\ UNCHANGED serverVars

\* the user presses Escape in the loader: loader.signal fires and
\* loader.onAbort calls done(null)
LoaderAbort ==
  /\ pc = "generating"
  /\ gen.result = "none"
  /\ ~gen.loaderAborted
  /\ gen' = Done([gen EXCEPT !.loaderAborted = TRUE], "null")
  /\ UNCHANGED <<pc, settled, aborted>>
  /\ UNCHANGED serverVars

\* the signal execute was called with fires before the session: execute has
\* no listener on it yet and generatePlan was not given it
CallerAbort ==
  /\ pc \in {"execute", "generating"}
  /\ ~aborted
  /\ aborted' = TRUE
  /\ gen' = [gen EXCEPT !.callerAbortedAt = gen.stage]
  /\ UNCHANGED <<pc, settled>>
  /\ UNCHANGED serverVars

\* a check of the signal that never finds it aborted
SignalAborted_ignored == FALSE

\* signal?.aborted, read after generatePlan returned
SignalAborted == aborted

\* await generatePlan(...) returned: the checks of execute that follow it,
\* then the executor of the promise up to server.listen
Generated ==
  /\ pc = "generating"
  /\ gen.result /= "none"
  /\ IF gen.result = "null"
     THEN /\ pc' = "returned"
          /\ settled' = GenerationFailed
          /\ UNCHANGED <<httpServer, timeoutId, hist>>
     ELSE IF SignalAborted
     THEN /\ pc' = "returned"
          /\ settled' = AbortedAfterGeneration
          /\ UNCHANGED <<httpServer, timeoutId, hist>>
     ELSE /\ pc' = "starting"
          /\ httpServer' = "pending"
          /\ timeoutId' = resetTimeout
          /\ hist' = Rearmed(hist, Off)
          /\ settled' = settled
  /\ UNCHANGED <<plan, resolved, server, files, threw, aborted, graceTimers, conn, nReq,
                 lastExchange, reviewArg, rendered, now, lastActivity, client, gen,
                 fnArg, fnResult>>

ExecNext ==
  \/ Begin \/ GetApiKey \/ Complete \/ LoaderAbort \/ CallerAbort \/ Generated
  \/ Next

ExecSpec == ExecInit /\ [][ExecNext]_vars

\* ===== Specification of both entry points and of generation, up to the session =====

Tasks == SeqsUpTo({Space, "x"}, MaxTaskLen)

ContextFileLists ==
  SeqsUpTo({File(n, st) : n \in {"a", "b"}, st \in {"ok", "missing", "unreadable"}}, MaxFiles)

GenInputs ==
  {GenInput("tool", ui, m, task, fs, NoString) :
     ui \in BOOLEAN, m \in BOOLEAN, task \in Tasks, fs \in ContextFileLists}
  \cup {GenInput("command", ui, TRUE, args, <<>>, typed) :
          ui \in BOOLEAN, args \in Tasks \cup {NoString}, typed \in Tasks \cup {NoString}}

GenInit ==
  /\ gen \in GenInputs
  /\ pc = IF gen.entry = "command" THEN "command" ELSE "execute"
  /\ plan = SessionPlan
  /\ resolved = FALSE
  /\ server = FALSE
  /\ settled = NoResult
  /\ files = <<>>
  /\ threw = FALSE
  /\ aborted = FALSE
  /\ httpServer = "none"
  /\ timeoutId = Off
  /\ graceTimers = <<>>
  /\ conn = FALSE
  /\ nReq = 0
  /\ lastExchange = NoExchange
  /\ hist = InitHist
  /\ reviewArg = NoReview
  /\ rendered = <<>>
  /\ now = 0
  /\ lastActivity = 0
  /\ client = NoClient
  /\ fnArg = <<>>
  /\ fnResult = <<>>

\* the handler of the /create-plan command
Command ==
  /\ pc = "command"
  /\ IF ~gen.hasUI
     THEN /\ pc' = "returned"
          /\ gen' = [gen EXCEPT !.notified = "create-plan requires interactive mode"]
     ELSE LET trimmed == IF gen.task = NoString THEN NoString ELSE Trim(gen.task)
              taskDescription == IF Empty(trimmed) THEN gen.typed ELSE trimmed
          IN IF Empty(trimmed) /\ (gen.typed = NoString \/ Empty(Trim(gen.typed)))
             THEN /\ pc' = "returned"
                  /\ gen' = [gen EXCEPT !.notified = "Cancelled - no task provided"]
             ELSE /\ pc' = "messageSent"
                  /\ gen' = [gen EXCEPT !.message = taskDescription]
  /\ UNCHANGED <<settled, aborted>>
  /\ UNCHANGED serverVars

GenNext ==
  \/ Command \/ Begin \/ GetApiKey \/ Complete \/ LoaderAbort \/ CallerAbort \/ Generated

GenSpec == GenInit /\ [][GenNext]_vars

\* ===== Specification of the extraction of a plan from a response text =====

ParseInit ==
  /\ pc = "parsing"
  /\ fnArg \in SeqsUpTo(Pieces, MaxPieces)
  /\ fnResult = "none"
  /\ gen = GenDone
  /\ plan = SessionPlan
  /\ resolved = FALSE
  /\ server = FALSE
  /\ settled = NoResult
  /\ files = <<>>
  /\ threw = FALSE
  /\ aborted = FALSE
  /\ httpServer = "none"
  /\ timeoutId = Off
  /\ graceTimers = <<>>
  /\ conn = FALSE
  /\ nReq = 0
  /\ lastExchange = NoExchange
  /\ hist = InitHist
  /\ reviewArg = NoReview
  /\ rendered = <<>>
  /\ now = 0
  /\ lastActivity = 0
  /\ client = NoClient

\* doGenerate from the response text to its return value
ParseResponse ==
  /\ pc = "parsing"
  /\ pc' = "parsed"
  /\ fnResult' = ExtractPlan(fnArg)
  /\ UNCHANGED <<aborted, settled, gen, fnArg>>
  /\ UNCHANGED <<plan, resolved, server, files, threw, httpServer, timeoutId, graceTimers, conn,
                 nReq, lastExchange, hist, reviewArg, rendered, now, lastActivity, client>>

ParseNext == ParseResponse

ParseSpec == ParseInit /\ [][ParseNext]_vars

\* ===== Specification of the pages one server instance serves =====

\* A string that goes into the page data is a sequence of pieces: "text"
\* (ordinary characters), the replacement patterns "$$", "$&" and "$'" of
\* String.prototype.replace, and the literal "__SESSION_TOKEN__".
TextPieces == {"text", "$$", "$&", "$'", "__SESSION_TOKEN__"}

\* form/index.html: the token placeholder, then the script element that
\* holds the data placeholder
PageTemplate == <<"<html>", "__SESSION_TOKEN__", "<script>", "__PLAN_DATA_JSON__", "</script>">>

DataAt == CHOOSE i \in 1..Len(PageTemplate) : PageTemplate[i] = "__PLAN_DATA_JSON__"

\* html.replace("__PLAN_DATA_JSON__", planData) with a string as the
\* replacement: "$$" inserts "$", "$&" the matched text and "$'" the part
\* of the template that follows the match
ReplacementPiece(p) ==
  CASE p = "$$" -> <<"$">>
    [] p = "$&" -> <<"__PLAN_DATA_JSON__">>
    [] p = "$'" -> SubSeq(PageTemplate, DataAt + 1, Len(PageTemplate))
    [] OTHER -> <<p>>

RECURSIVE Replacement(_)
Replacement(str) ==
  IF str = <<>> THEN <<>> ELSE ReplacementPiece(Head(str)) \o Replacement(Tail(str))

\* html.replace(/__SESSION_TOKEN__/g, sessionToken)
WithToken(str, token) ==
  [i \in 1..Len(str) |-> IF str[i] = "__SESSION_TOKEN__" THEN token ELSE str[i]]

\* the html of GET / : what the token placeholder of the template became
\* and the data object the script element holds
ServedPage(data) ==
  [token |-> WithToken(<<PageTemplate[2]>>, data.sessionToken)[1],
   data |-> [title |-> WithToken(Replacement(data.title), data.sessionToken),
             cwd |-> WithToken(Replacement(data.cwd), data.sessionToken),
             sessionToken |-> data.sessionToken,
             timeout |-> data.timeout]]

\* startPlanServer was called and listens: sessionToken = randomUUID(), the
\* url of the handle; fnArg is what the instance serves pages from
PageInit ==
  /\ pc = "serving"
  /\ fnArg \in {[title |-> t, cwd |-> c, sessionToken |-> u, timeout |-> timeout, url |-> u] :
                  t \in SeqsUpTo(TextPieces, MaxTextLen) \ {<<>>},
                  c \in {<<"text">>, <<"text", "$$">>},
                  u \in {"uuid-1", "uuid-2"}}
  /\ fnResult = <<>>
  /\ gen = GenDone
  /\ plan = SessionPlan
  /\ resolved = FALSE
  /\ server = TRUE
  /\ settled = NoResult
  /\ files = <<>>
  /\ threw = FALSE
  /\ aborted = FALSE
  /\ httpServer = "listening"
  /\ timeoutId = resetTimeout
  /\ graceTimers = <<>>
  /\ conn = FALSE
  /\ nReq = 0
  /\ lastExchange = NoExchange
  /\ hist = Rearmed(InitHist, Off)
  /\ reviewArg = NoReview
  /\ rendered = <<>>
  /\ now = 0
  /\ lastActivity = 0
  /\ client = NoClient

\* GET / or GET /index.html: the page is built from the template
ServePage ==
  /\ pc = "serving"
  /\ Len(fnResult) < MaxPages
  /\ fnResult' = Append(fnResult, ServedPage(fnArg))
  /\ GetHandler("/", TRUE)
  /\ UNCHANGED <<pc, aborted, settled, gen, fnArg>>
  /\ UNCHANGED <<plan, resolved, server, files, threw, httpServer, graceTimers,
                 reviewArg, rendered, now, client>>

PageNext == ServePage

PageSpec == PageInit /\ [][PageNext]_vars

\* ===== Properties =====

\* nothing is left to run: the promise chain has ended and no timer is pending
Quiescent == pc \in {"opened", "launchFailed", "serverError"} /\ Pending = {}

C2_FirstAcceptedSubmitWins ==
  (resolved /\ hist.first.kind = "submit")
    => (hist.outcome.kind = "submit" /\ hist.outcome.value = hist.first.value)

\* C3: once the session is resolved and startPlanServer has produced a
\* listening server, close() is called: when nothing is left to run, the
\* server of a resolved session does not listen any more.
C3_ResolvedServerIsClosed ==
  (resolved /\ Quiescent) => httpServer /= "listening"

\* C4: a session whose server started and whose browser was launched, and
\* that receives no request and no abort, is eventually resolved by the idle
\* timer with no approval, its server closed and no artifact written.
C4_AbandonedSessionTimesOut ==
  <>(\/ nReq > 0
     \/ aborted
     \/ pc \in {"serverError", "launchFailed"}
     \/ /\ resolved
        /\ hist.outcome.kind = "idle"
        /\ settled.status = "rejected"
        /\ settled.review = NoReview
        /\ httpServer = "closed"
        /\ files = <<>>)

C4_Witness ==
  /\ nReq = 0
  /\ ~aborted
  /\ pc = "opened"
  /\ resolved
  /\ hist.outcome.kind = "idle"
  /\ settled.status = "rejected"
  /\ httpServer = "closed"
  /\ files = <<>>

\* C5: an artifact file is written only when the session resolves with a
\* decision that is approve or modify.
C5_ArtifactOnlyOnApproveOrModify ==
  files /= <<>> => hist.outcome.value.decision \in {"approve", "modify"}

KindCount(md, from, to, kind) ==
  Cardinality({i \in from..to : md[i].kind = kind})

\* C6: when the resolving decision is approve or modify and selectedPhases
\* is the empty sequence, every phase is rendered in full, none as an
\* excluded stub, and the result summary lists every phase.
C6_EmptySelectionMeansAllPhases ==
  (/\ resolved
   /\ hist.outcome.value.decision \in {"approve", "modify"}
   /\ hist.outcome.value.selectedPhases = Some(<<>>)
   /\ files /= <<>>)
    => /\ KindCount(files[1].content, 1, Len(files[1].content), "excluded") = 0
       /\ KindCount(files[1].content, 1, Len(files[1].content), "description") = Len(plan.phases)
       /\ settled.status = "approved" => settled.phaseSummary = PhaseNumbers(plan)

\* the positions of the phase headers in a document
HeaderIdx(md) ==
  SelectSeq([i \in 1..Len(md) |-> i], LAMBDA i : md[i].kind = "phaseHeader")

\* C7: planToMarkdown emits one phase header per phase, in the order of the
\* plan; the block of a phase whose number is in the effective selected set
\* holds its description, tasks and success criteria, the block of any other
\* phase is the 'excluded' stub; no phase is dropped or rendered twice.
C7_PhaseCompleteness ==
  pc = "rendered" =>
    LET md == rendered
        idx == HeaderIdx(md)
        sel == EffectiveSelected(plan, reviewArg)
    IN /\ Len(idx) = Len(plan.phases)
       /\ \A k \in 1..Len(idx) :
            LET phase == plan.phases[k]
                included == Includes(sel, phase.number)
                from == idx[k] + 1
                to == IF k < Len(idx) THEN idx[k + 1] - 1 ELSE Len(md)
                n(kind) == KindCount(md, from, to, kind)
            IN /\ md[idx[k]].num = phase.number
               /\ md[idx[k]].text = (IF included THEN "ok" ELSE "skipped")
               /\ n("excluded") = (IF included THEN 0 ELSE 1)
               /\ n("description") = (IF included THEN 1 ELSE 0)
               /\ n("criteriaTitle") = (IF included THEN 1 ELSE 0)
               /\ n("task") = (IF included THEN Len(phase.tasks) ELSE 0)
               /\ n("criterion") = (IF included THEN Len(phase.automated) + Len(phase.manual) ELSE 0)
               /\ ~included => md[from + 1] = Line("excluded", phase.number, "")
               /\ included => md[from + 1] = Line("description", phase.number, phase.description)

\* a document with a phase rendered in full and a phase rendered as a stub
C7_Witness ==
  /\ pc = "rendered"
  /\ Len(plan.phases) >= 2
  /\ KindCount(rendered, 1, Len(rendered), "excluded") >= 1
  /\ KindCount(rendered, 1, Len(rendered), "description") >= 1

\* C8: POST /submit (valid body) and POST /cancel write {success: true}
\* before their callback is invoked; the callback runs from the grace-delay
\* timer, 500 ms later, never inside the request handler.
C8_AckThenResolve ==
  /\ [](/\ hist.invoked \subseteq hist.acks
        /\ \A i \in 1..Len(graceTimers) : graceTimers[i].req \in hist.acks
        /\ \A w \in hist.waited : w >= GraceDelay)
  /\ [][/\ hist'.invoked /= hist.invoked =>
             /\ nReq' = nReq
             /\ graceTimers /= <<>>
             /\ graceTimers' = Tail(graceTimers)
             /\ hist'.invoked = hist.invoked \cup {Head(graceTimers).req}
        /\ hist'.acks /= hist.acks =>
             /\ lastExchange'.status = 200
             /\ lastExchange'.body = "success"
             /\ hist'.invoked = hist.invoked
             /\ UNCHANGED <<resolved, settled, files, server, httpServer>>]_vars

\* the callbacks of an acknowledged submit and of an acknowledged cancel ran
C8_Witness ==
  /\ Cardinality(hist.invoked) = 2
  /\ hist.first.kind = "submit"
  /\ hist.outcome.kind = "submit"
  /\ lastExchange.path = "/cancel"

\* C9: a POST /submit whose body is not parseable JSON is answered 400 and
\* changes nothing: no callback is scheduled, the idle timer is neither
\* cleared nor re-armed, and the session is not resolved by it.
C9_InvalidSubmitLeavesSessionUnchanged ==
  [][(/\ nReq' = nReq + 1
      /\ lastExchange'.method = "POST"
      /\ lastExchange'.path = "/submit"
      /\ lastExchange'.syntax = "invalid")
       => /\ lastExchange'.status = 400
          /\ hist' = [hist EXCEPT !.invalid = @ \cup {nReq + 1}]
          /\ UNCHANGED <<timeoutId, graceTimers, resolved, server, httpServer,
                         settled, files, threw, pc>>]_vars

\* a session that answered 400 while its idle timer was pending, and was
\* then resolved by a valid submit
C9_Witness ==
  /\ hist.invalid = {1}
  /\ hist.acks = {2}
  /\ hist.outcome.kind = "submit"
  /\ settled.status = "approved"

\* C10: after one POST /submit or POST /cancel was acknowledged with
\* success, no later POST /submit or POST /cancel is acknowledged.
C10_OneTerminalActionAccepted ==
  Cardinality(hist.acks) <= 1

\* C11: a session whose page sends GET /heartbeat every tenth of the idle
\* timeout is never resolved by the idle timer while the heartbeats go on
\* (the timer never has less than nine tenths of the timeout left), for five
\* timeouts and more; the idle timer resolves a session exactly one timeout
\* after the last request, and one timeout after the start of the server
\* when no request was ever made.
C11_HeartbeatKeepsSessionAlive ==
  /\ [](client.state = "alive" => (~resolved /\ timeoutId >= TimeoutMs - BeatEvery))
  /\ [][(hist.outcome.kind = "none" /\ hist'.outcome.kind = "idle")
         => (client.state /= "alive" /\ now = lastActivity + TimeoutMs)]_vars
  /\ []((hist.outcome.kind = "idle" /\ nReq = 0) => now = TimeoutMs)

\* a page that has sent heartbeats for five idle timeouts, session unresolved
C11_Witness ==
  /\ client.state = "alive"
  /\ now - client.since >= 5 * TimeoutMs
  /\ nReq >= 50
  /\ lastExchange.path = "/heartbeat"
  /\ ~resolved
  /\ httpServer = "listening"

\* C12: every GET, whatever its path (404 and 500 answers included), re-arms
\* the idle timer with the full timeout counted from the request; a GET
\* never leaves less time than there was; and at most one idle timer is
\* pending at any moment (the one timeoutId refers to).
C12_GetRearmsIdleTimer ==
  /\ [](hist.armed <= 1 /\ (hist.armed = 1 <=> timeoutId /= Off))
  /\ [][(nReq' = nReq + 1 /\ lastExchange'.method = "GET")
         => (/\ timeoutId' = TimeoutMs
             /\ timeoutId' >= timeoutId
             /\ lastActivity' = now
             /\ hist'.armed = 1)]_vars

\* a second request, a GET answered 404, after which the idle timer is full
C12_Witness ==
  /\ lastExchange.method = "GET"
  /\ lastExchange.status = 404
  /\ lastExchange.req = 2
  /\ timeoutId = TimeoutMs
  /\ hist.first.kind = "none"
  /\ httpServer = "listening"

\* C13: an abort of the caller's signal during a review session is handled
\* like a cancel by the user: when it is the call of finish that passes the
\* guard, the caller gets the rejected result with review null and the
\* reason 'No reason provided' (unless a launch or server failure was
\* reported before), no artifact is written, and the server does not stay
\* listening.
C13_AbortHandledLikeCancel ==
  hist.outcome.kind = "abort" =>
    /\ settled = RejectedResult(NoReview) \/ settled.status = "pending"
    /\ files = <<>>
    /\ Quiescent => httpServer /= "listening"

\* C14: when the server accepted a submit and then a cancel, or a cancel and
\* then a submit, and both callbacks have run (no abort, no launch failure),
\* neither callback threw, the second was a no-op (finish passed its guard
\* once, resolve was called once, close() ran once, at most one file), and
\* the outcome of the session is that of the request accepted first.
C14_SubmitAndCancelBothAccepted ==
  (/\ pc = "opened"
   /\ ~aborted
   /\ hist.acks = {1, 2}
   /\ hist.invoked = {1, 2}
   /\ lastExchange.req = 2
   /\ \/ hist.first.kind = "submit" /\ lastExchange.path = "/cancel"
      \/ hist.first.kind = "cancel" /\ lastExchange.path = "/submit")
    => /\ ~threw
       /\ hist.finishPasses = 1
       /\ hist.finishResolves = 1
       /\ hist.closeCalls = 1
       /\ settled.status /= "none"
       /\ Len(files) <= 1
       /\ hist.outcome.kind = hist.first.kind
       /\ hist.outcome.value = hist.first.value

\* a step of the abort listener, of the idle timer or of a grace-delay callback
LateCallbackStep ==
  \/ aborted' /= aborted
  \/ timeoutId = 0 /\ timeoutId' = Off /\ nReq' = nReq /\ pc' = pc
  \/ graceTimers /= <<>> /\ graceTimers' = Tail(graceTimers)

\* C15: once finish has resolved the session, an abort, an expiry of the idle
\* timer or a late grace-delay callback is a no-op: the result delivered,
\* the files written and the state of the server stay what they were, and
\* close() is not called again.
C15_LateCallbacksAreNoOps ==
  [][(resolved /\ LateCallbackStep)
       => /\ UNCHANGED <<settled, files, httpServer, server, resolved, threw>>
          /\ hist'.closeCalls = hist.closeCalls
          /\ hist'.finishPasses = hist.finishPasses
          /\ hist'.outcome = hist.outcome]_vars

\* a submit resolved the session with an artifact, and the abort that came
\* after it and the cancel callback scheduled behind it have both run
C15_Witness ==
  /\ hist.outcome.kind = "submit"
  /\ settled.status = "approved"
  /\ aborted
  /\ hist.invoked = {1, 2}
  /\ lastExchange.path = "/cancel"
  /\ Len(files) = 1
  /\ httpServer = "closed"

\* C16: when the signal execute was called with fires while the remote
\* text-generation call is in progress, that call ends aborted (or with the
\* exception of an abort) and generation yields no plan.
C16_CallerAbortStopsGeneration ==
  (gen.callerAbortedAt = "completing" /\ gen.stage = "done")
    => (gen.remote \in {"aborted", "failed"} /\ gen.result /= "plan")

\* C17: no exit path of a review session leaves the caller unresolved: when
\* the promise chain has ended and no timer is pending, the promise of
\* execute has been settled, also when the artifact write fails in finish.
C17_EveryExitPathSettles ==
  Quiescent => settled.status /= "none"

\* C18: when openUrl fails while the session is unresolved, the server is
\* closed and the caller gets a result whose text starts with 'Failed to
\* open browser', with status pending and the plan attached; that step
\* writes no artifact, and the result never becomes a rejection.
C18_LaunchFailureReportedDistinctly ==
  /\ [][(pc = "opening" /\ pc' = "launchFailed" /\ ~resolved)
         => (/\ httpServer' = "closed"
             /\ server' = FALSE
             /\ settled'.text = "Failed to open browser"
             /\ settled'.status = "pending"
             /\ settled'.plan
             /\ files' = files)]_vars
  /\ [](settled.text = "Failed to open browser" => settled.status = "pending")

\* a launch failure was reported and the abort that came after it did not
\* change the result
C18_Witness ==
  /\ pc = "launchFailed"
  /\ settled = LaunchFailed
  /\ httpServer = "closed"
  /\ hist.outcome.kind = "abort"
  /\ files = <<>>

\* C19: after a launch failure of an otherwise unresolved session the
\* session server keeps listening on the same URL, so that the URL can be
\* opened again and a later submit is accepted.
C19_ServerListensAfterLaunchFailure ==
  (pc = "launchFailed" /\ hist.outcome.kind = "none") => httpServer = "listening"

\* C20: when the server fails to start, the caller gets the 'Server error'
\* result with status pending and no resource of the session stays live
\* afterwards: the server does not listen and the idle timer armed inside
\* startPlanServer is no longer armed.
C20_ServerStartFailureLeavesNothingLive ==
  pc = "serverError" =>
    /\ hist.outcome.kind = "none" => (settled.text = "Server error" /\ settled.status = "pending")
    /\ httpServer /= "listening"
    /\ timeoutId = Off

\* C21: when no model is selected, generatePlan notifies 'No model selected'
\* and returns null: no prompt is built from the context files, no API key
\* is requested, the text-generation service is not called, and execute
\* returns the generation failure with no server started and nothing opened.
C21_NoModelFailsFast ==
  (gen.entry = "tool" /\ gen.hasUI /\ ~gen.model /\ pc /= "execute")
    => /\ gen.notified = "No model selected"
       /\ gen.prompt = NoPrompt
       /\ ~gen.keyRequested
       /\ gen.remote = "none"
       /\ gen.stage = "idle"
       /\ pc = "returned"
       /\ settled = GenerationFailed
       /\ httpServer = "none"
       /\ timeoutId = Off
       /\ nReq = 0

\* create_plan was executed with a UI and no model, and has returned
C21_Witness ==
  /\ gen.entry = "tool"
  /\ gen.hasUI
  /\ ~gen.model
  /\ gen.contextFiles /= <<>>
  /\ pc = "returned"
  /\ settled.error = "generation-failed"

\* the text holds a fenced block whose content is a proposal object
HasFencedPlan(text) ==
  \E i, j \in IndicesOf(text, {"fence"}) :
    /\ i < j
    /\ Cardinality({k \in IndicesOf(text, {"fence"}) : k < i}) % 2 = 0
    /\ \A k \in (i + 1)..(j - 1) : text[k] \in {"plan", "ws"}
    /\ Cardinality({k \in (i + 1)..(j - 1) : text[k] = "plan"}) = 1

\* the text is prose around one unfenced proposal object
HasBarePlan(text) ==
  /\ IndicesOf(text, {"fence", "scalar"}) = {}
  /\ Cardinality(IndicesOf(text, {"plan"})) = 1
  /\ IndicesOf(text, {"prose", "braces"}) /= {}

\* the text has no structured content at all
NoStructure(text) == IndicesOf(text, {"fence", "plan", "scalar", "braces"}) = {}

\* C22: from a response text that holds a fenced block with a proposal
\* object, and from one that is prose around a bare proposal object, the
\* generator returns the proposal; from a text with no structured content
\* it returns null.
C22_ParsingRobustness ==
  pc = "parsed" =>
    /\ HasFencedPlan(fnArg) => fnResult = "plan"
    /\ HasBarePlan(fnArg) => fnResult = "plan"
    /\ NoStructure(fnArg) => fnResult = "null"

\* C23: however generation fails (text that holds no plan, stopReason
\* aborted, an exception of the remote call or of the fetch of the API key)
\* generatePlan resolves to null, nothing is left unhandled, and execute
\* returns the 'Failed to generate plan' result without starting a server.
C23_GenerationFailureIsNormalOutcome ==
  gen.outcome \in {"unparseable", "aborted", "threw", "keyThrew"}
    => /\ gen.result = "null"
       /\ ~gen.unhandled
       /\ pc \in {"generating", "returned"}
       /\ pc = "returned" => settled = GenerationFailed
       /\ httpServer = "none"
       /\ timeoutId = Off
       /\ ~server

\* the remote call threw and execute has returned the generation failure
C23_Witness ==
  /\ gen.outcome = "threw"
  /\ gen.remote = "failed"
  /\ ~gen.loaderAborted
  /\ pc = "returned"
  /\ settled = GenerationFailed

\* the names of the files of a list that exist and can be read
ReadableNames(fs) ==
  LET ok == SelectSeq(fs, LAMBDA f : f.state = "ok")
  IN [i \in 1..Len(ok) |-> ok[i].name]

\* C24: a context file that is missing or cannot be read is skipped and
\* does not stop generation: with a UI and a model the prompt is built with
\* the contents of exactly the readable files, in the order given, and the
\* generation goes on to the API key and the remote call.
C24_ContextFilesBestEffort ==
  (gen.entry = "tool" /\ gen.hasUI /\ gen.model /\ pc /= "execute")
    => /\ gen.prompt.files = ReadableNames(gen.contextFiles)
       /\ gen.prompt.task = gen.task
       /\ gen.keyRequested
       /\ gen.stage /= "idle"

\* a call with an unreadable file in front of a readable one reached the
\* remote call
C24_Witness ==
  /\ gen.contextFiles = <<File("a", "unreadable"), File("b", "ok")>>
  /\ gen.prompt.files = <<"b">>
  /\ gen.remote = "completed"
  /\ gen.result = "plan"

\* C25: neither entry point starts generation with a task description that
\* is empty or whitespace only: the command sends no such message and the
\* tool makes no call to the text-generation service for it.
C25_NoGenerationForEmptyTask ==
  /\ gen.message /= NoString => Trim(gen.message) /= <<>>
  /\ (gen.entry = "tool" /\ gen.remote /= "none") => Trim(gen.task) /= <<>>

\* C26: the token of a server instance is generated once: the url of the
\* handle carries it, and every page the instance serves has that token in
\* it and embeds the same token with the proposal, the working directory
\* and the configured timeout.
C26_OneTokenPerInstance ==
  pc = "serving" =>
    /\ fnArg.url = fnArg.sessionToken
    /\ \A i \in 1..Len(fnResult) :
         /\ fnResult[i].token = fnArg.sessionToken
         /\ fnResult[i].data.sessionToken = fnArg.sessionToken
         /\ fnResult[i].data.title = fnArg.title
         /\ fnResult[i].data.cwd = fnArg.cwd
         /\ fnResult[i].data.timeout = timeout

\* C27: whenever finish resolves the promise of execute while a server
\* handle is held, close() has run by the time the result can be observed:
\* the step that settles the promise also leaves the handle released, the
\* server not listening and the idle timer cleared, close() having been
\* called once more.
C27_ClosePrecedesReturn ==
  [][(settled.status = "none" /\ settled'.status \in {"approved", "rejected"} /\ server)
       => /\ ~server'
          /\ httpServer' = "closed"
          /\ timeoutId' = Off
          /\ hist'.closeCalls = hist.closeCalls + 1]_vars

\* a session resolved by the idle timer while the handle was held
C27_Witness ==
  /\ hist.outcome.kind = "idle"
  /\ settled = RejectedResult(NoReview)
  /\ hist.closeCalls = 1
  /\ httpServer = "closed"
  /\ pc = "opened"

\* ===== Specification of the name of the artifact finish writes =====

MaxTitleLen == 3

\* The characters a title is made of, one per class the code tells apart:
\* a lower-case letter, an upper-case letter, a digit, a space, another
\* whitespace character, "-", the path separator, ".", and any other
\* character (punctuation, a letter outside ASCII).
TitleChars == {"a", "A", "1", " ", "\t", "-", "/", ".", "_"}

Whitespace == {" ", "\t"}

\* String.prototype.toLowerCase
ToLowerCase(str) == [i \in 1..Len(str) |-> IF str[i] = "A" THEN "a" ELSE str[i]]

\* str.replace(/\s+/g, "-"): every maximal run of whitespace becomes one "-"
RECURSIVE ReplaceWhitespaceRuns(_)
ReplaceWhitespaceRuns(str) ==
  IF str = <<>> THEN <<>>
  ELSE IF Head(str) \in Whitespace
       THEN IF Len(str) > 1 /\ str[2] \in Whitespace
            THEN ReplaceWhitespaceRuns(Tail(str))
            ELSE <<"-">> \o ReplaceWhitespaceRuns(Tail(str))
       ELSE <<Head(str)>> \o ReplaceWhitespaceRuns(Tail(str))

\* a removal that removes nothing
RemoveOther_keepsAll(str) == str

\* str.replace(/[^a-z0-9-]/g, "")
RemoveOther(str) == SelectSeq(str, LAMBDA c : c \in {"a", "1", "-"})

\* plan.title.toLowerCase().replace(/\s+/g, "-").replace(/[^a-z0-9-]/g, "")
Slug(title) == RemoveOther(ReplaceWhitespaceRuns(ToLowerCase(title)))

\* str.split(sep): the pieces of str between the occurrences of sep
RECURSIVE Split(_, _)
Split(str, sep) ==
  IF \A i \in 1..Len(str) : str[i] /= sep THEN <<str>>
  ELSE LET i == CHOOSE k \in 1..Len(str) :
                  str[k] = sep /\ \A j \in 1..(k - 1) : str[j] /= sep
       IN <<SubSeq(str, 1, i - 1)>> \o Split(SubSeq(str, i + 1, Len(str)), sep)

\* now.toISOString() and now.toTimeString(); "1" stands for a group of digits
ISOString == <<"1", "-", "1", "-", "1", "T", "1", ":", "1", ":", "1", ".", "1", "Z">>
TimeString == <<"1", ":", "1", ":", "1", " ", "G", "M", "T">>

\* generatePlanId: `${date}-${time}`
generatePlanId ==
  LET date == Split(ISOString, "T")[1]
      time == SelectSeq(Split(TimeString, " ")[1], LAMBDA c : c /= ":")
  IN date \o <<"-">> \o time

\* join(homedir(), ".pi/plans"), as its segments
PLANS_DIR == << <<"h">>, <<".", "p", "i">>, <<"p", "l", "a", "n", "s">> >>

\* path.join's normalisation: empty and "." segments go, ".." removes the
\* segment before it
RECURSIVE Normalize(_, _)
Normalize(done, segs) ==
  IF segs = <<>> THEN done
  ELSE LET seg == Head(segs) IN
       IF seg = <<>> \/ seg = <<".">> THEN Normalize(done, Tail(segs))
       ELSE IF seg = <<".", ".">>
            THEN Normalize(IF done = <<>> THEN done ELSE SubSeq(done, 1, Len(done) - 1), Tail(segs))
            ELSE Normalize(Append(done, seg), Tail(segs))

\* path.join(dir, name), as the segments of the path
Join(dir, name) == Normalize(<<>>, dir \o Split(name, "/"))

\* `${planId}-${slug}.md`
Filename(title) == generatePlanId \o <<"-">> \o Slug(title) \o <<".", "m", "d">>

SlugInit ==
  /\ pc = "naming"
  /\ fnArg \in SeqsUpTo(TitleChars, MaxTitleLen)
  /\ fnResult = <<>>
  /\ gen = GenDone
  /\ plan = SessionPlan
  /\ resolved = FALSE
  /\ server = FALSE
  /\ settled = NoResult
  /\ files = <<>>
  /\ threw = FALSE
  /\ aborted = FALSE
  /\ httpServer = "none"
  /\ timeoutId = Off
  /\ graceTimers = <<>>
  /\ conn = FALSE
  /\ nReq = 0
  /\ lastExchange = NoExchange
  /\ hist = InitHist
  /\ reviewArg = NoReview
  /\ rendered = <<>>
  /\ now = 0
  /\ lastActivity = 0
  /\ client = NoClient

\* finish, approved branch, from the title to the path it writes
NameArtifact ==
  /\ pc = "naming"
  /\ pc' = "written"
  /\ fnResult' = [filename |-> Filename(fnArg), filepath |-> Join(PLANS_DIR, Filename(fnArg))]
  /\ UNCHANGED <<aborted, settled, gen, fnArg>>
  /\ UNCHANGED <<plan, resolved, server, files, threw, httpServer, timeoutId, graceTimers, conn,
                 nReq, lastExchange, hist, reviewArg, rendered, now, lastActivity, client>>

SlugNext == NameArtifact

SlugSpec == SlugInit /\ [][SlugNext]_vars

\* the result finish delivers when the session is abandoned
AbandonedResult ==
  Result("rejected", "Plan rejected", NoReview, 0, "No reason provided", <<>>)

\* C28: a session ended by the idle timer, a cancel or an abort writes no
\* artifact, as one ended by an explicit reject does not, and the result
\* the caller gets for an explicit reject submitted through POST /submit
\* differs from the result of an abandonment, for every reject payload,
\* also one with empty notes.
C28_AbandonmentVersusReject ==
  /\ hist.outcome.kind \in {"idle", "cancel", "abort"}
       => /\ files = <<>>
          /\ settled.status = "rejected" => settled = AbandonedResult
  /\ (/\ hist.outcome.kind = "submit"
      /\ hist.outcome.value.kind = "object"
      /\ hist.outcome.value.decision = "reject")
       => /\ files = <<>>
          /\ settled.status = "rejected"
               => (settled /= AbandonedResult /\ settled.review = hist.outcome.value)

\* a reject with empty notes was submitted and resolved the session
C28_Witness ==
  /\ hist.outcome.kind = "submit"
  /\ hist.outcome.value.kind = "object"
  /\ hist.outcome.value.decision = "reject"
  /\ hist.outcome.value.notes = ""
  /\ settled.status = "rejected"
  /\ settled.reason = "No reason provided"

\* the part of a written file name between "<date>-<time>-" and ".md"
SlugOf(name) == SubSeq(name, Len(generatePlanId) + 2, Len(name) - 3)

\* the slug the title is to give, character by character: a whitespace
\* character gives "-" when it starts a run and nothing otherwise, a
\* letter its lower case, a digit and "-" themselves, any other nothing
RECURSIVE ExpectedSlug(_, _)
ExpectedSlug(title, i) ==
  IF i > Len(title) THEN <<>>
  ELSE (IF title[i] \in Whitespace
        THEN IF i > 1 /\ title[i - 1] \in Whitespace THEN <<>> ELSE <<"-">>
        ELSE IF title[i] \in {"a", "A"} THEN <<"a">>
        ELSE IF title[i] \in {"1", "-"} THEN <<title[i]>>
        ELSE <<>>) \o ExpectedSlug(title, i + 1)

\* C29: for every title the written file lies directly inside the plans
\* directory, its name is <date>-<time>-<slug>.md, and the slug is the
\* lower-cased title with whitespace runs replaced by "-" and every other
\* character removed, so it holds only characters of [a-z0-9-] and no
\* path separator or ".." segment.
C29_FilenameIsFilesystemSafe ==
  pc = "written" =>
    LET name == fnResult.filename
        path == fnResult.filepath
    IN /\ Len(path) = Len(PLANS_DIR) + 1
       /\ SubSeq(path, 1, Len(PLANS_DIR)) = PLANS_DIR
       /\ path[Len(path)] = name
       /\ SubSeq(name, 1, Len(generatePlanId) + 1) = generatePlanId \o <<"-">>
       /\ SubSeq(name, Len(name) - 2, Len(name)) = <<".", "m", "d">>
       /\ SlugOf(name) = ExpectedSlug(fnArg, 1)
       /\ \A i \in 1..Len(SlugOf(name)) : SlugOf(name)[i] \in {"a", "1", "-"}
       /\ \A i \in 1..Len(name) : name[i] /= "/"

\* a file was named for a title that holds a path separator and a ".."
C29_Witness ==
  /\ pc = "written"
  /\ \E i \in 1..Len(fnArg) : fnArg[i] = "/"
  /\ \E i \in 1..(Len(fnArg) - 1) : fnArg[i] = "." /\ fnArg[i + 1] = "."
  /\ fnResult.filename = generatePlanId \o <<"-", ".", "m", "d">>

\* the idle timer is never the event that resolves a session one of whose
\* POSTs was acknowledged before
IdleNeverResolvesAcknowledged ==
  [][(hist.outcome.kind /= "idle" /\ hist'.outcome.kind = "idle") => hist.acks = {}]_vars

\* C30: from the acknowledgement of a valid POST /submit or of a POST
\* /cancel until the handle is closed the idle timer is not armed, whatever
\* other requests arrive during the grace delay.
C30_IdleTimerStoppedByTerminalAction ==
  (hist.acks /= {} /\ server /\ httpServer = "listening") => timeoutId = Off

\* C31: once close() of the handle has run, neither the idle timer nor a
\* grace-delay timer of the session is pending, also after a request that
\* came over a connection opened before close().
C31_NoTimerSurvivesTeardown ==
  hist.closeCalls > 0 => (timeoutId = Off /\ graceTimers = <<>>)

\* C32: GET /heartbeat answers {ok: true, remaining: r} with 0 <= r <=
\* timeout, and r is the configured timeout, because the handler reset
\* the deadline before it computed r.
C32_HeartbeatRemaining ==
  (lastExchange.method = "GET" /\ lastExchange.path = "/heartbeat")
    => /\ lastExchange.status = 200
       /\ lastExchange.body = "heartbeat"
       /\ 0 <= lastExchange.remaining
       /\ lastExchange.remaining <= timeout
       /\ lastExchange.remaining = timeout

\* a heartbeat was answered several periods after the page was loaded
C32_Witness ==
  /\ lastExchange.method = "GET"
  /\ lastExchange.path = "/heartbeat"
  /\ lastExchange.remaining = timeout
  /\ now >= 2 * BeatEvery
  /\ hist.armed = 1

\* generatePlan hands a proposal to execute while the caller's signal is
\* already aborted
AbortedBeforeSession ==
  pc = "generating" /\ gen.result = "plan" /\ aborted

\* C33: when the signal is already aborted as generation returns a
\* proposal, execute returns 'Plan generation was aborted.' with status
\* pending and no review session starts: no server, no browser, no abort
\* listener that calls finish, no artifact.
C33_AbortedBeforeSession ==
  /\ [][(AbortedBeforeSession /\ pc' /= pc)
          => (pc' = "returned" /\ settled' = AbortedAfterGeneration)]_vars
  /\ [](settled = AbortedAfterGeneration
          => /\ pc = "returned"
             /\ settled.status = "pending"
             /\ httpServer = "none"
             /\ ~server
             /\ timeoutId = Off
             /\ hist = InitHist
             /\ nReq = 0
             /\ files = <<>>)

\* execute returned the aborted result for a proposal that was generated
C33_Witness ==
  /\ pc = "returned"
  /\ gen.result = "plan"
  /\ aborted
  /\ settled = AbortedAfterGeneration
  /\ httpServer = "none"

\* C34: an artifact file is written only if the result delivered to the
\* caller has status approved and carries the path of that file; once a
\* launch failure or a server error was delivered, nothing writes one.
C34_ArtifactImpliesApproved ==
  files /= <<>> => (settled.status = "approved" /\ settled.savedPath = Len(files))

\* ===== Specification of the request handler as a function of the request =====

\* the `session` query parameter of a request: absent, the session token,
\* or another value
SessionParams == {"absent", "token", "other"}

\* a request and the idle timer it finds; exists: existsSync of the file a
\* GET is served from, body: what arrives before "end"
Request(method, path, exists, body, session, tid) ==
  [method |-> method, path |-> path, exists |-> exists, body |-> body,
   session |-> session, timeoutId |-> tid]

Requests ==
  {Request(r[1], r[2], r[3], r[4], session, tid) :
     r \in ({<<"GET", path, exists, Garbage>> : path \in GetPaths, exists \in BOOLEAN}
            \cup {<<"POST", "/submit", TRUE, body>> : body \in Bodies}
            \cup {<<"OPTIONS", "/", TRUE, Garbage>>, <<"POST", "/cancel", TRUE, Garbage>>,
                  <<"POST", "/", TRUE, Garbage>>, <<"PUT", "/submit", TRUE, Garbage>>}),
     session \in SessionParams,
     tid \in {resetTimeout, Off}}

\* what handling a request comes to: the response, the idle timer after it
\* and the callbacks it scheduled
Outcome(response, tid, scheduled) ==
  [response |-> response, timeoutId |-> tid, scheduled |-> scheduled]

\* the branches of the request handler, by method and path
Dispatch(req) ==
  IF req.method = "OPTIONS"
  THEN Outcome(Response("OPTIONS", req.path, 200, "", 0), req.timeoutId, <<>>)
  ELSE IF req.method = "GET"
  THEN Outcome(GetResponse(req.path, req.exists, 0), resetTimeout, <<>>)
  ELSE IF req.method = "POST" /\ req.path = "/submit"
  THEN LET parsed == JSONParse(req.body)
       IN IF parsed.ok
          THEN Outcome(Exchange("POST", "/submit", req.body.syntax, 200, "success", 0), Off,
                       <<GraceTimer("submit", parsed.value)>>)
          ELSE Outcome(Exchange("POST", "/submit", req.body.syntax, 400, "Invalid JSON", 0),
                       req.timeoutId, <<>>)
  ELSE IF req.method = "POST" /\ req.path = "/cancel"
  THEN Outcome(Response("POST", "/cancel", 200, "success", 0), Off,
               <<GraceTimer("cancel", NoReview)>>)
  ELSE Outcome(Response(req.method, req.path, 404, "Not Found", 0), req.timeoutId, <<>>)

\* a handler that answers 403 unless the request carries the session token
HandleRequest_checked(req) ==
  IF req.session = "token" THEN Dispatch(req)
  ELSE Outcome(Response(req.method, req.path, 403, "Forbidden", 0), req.timeoutId, <<>>)

\* the request handler: urlSessionToken is read from the query and used by
\* no branch
HandleRequest(req) ==
  LET urlSessionToken == req.session
  IN Dispatch(req)

RequestInit ==
  /\ pc = "receiving"
  /\ fnArg \in Requests
  /\ fnResult = <<>>
  /\ timeoutId = fnArg.timeoutId
  /\ hist = IF fnArg.timeoutId = Off THEN InitHist ELSE Rearmed(InitHist, Off)
  /\ gen = GenDone
  /\ plan = SessionPlan
  /\ resolved = FALSE
  /\ server = TRUE
  /\ settled = NoResult
  /\ files = <<>>
  /\ threw = FALSE
  /\ aborted = FALSE
  /\ httpServer = "listening"
  /\ graceTimers = <<>>
  /\ conn = FALSE
  /\ nReq = 0
  /\ lastExchange = NoExchange
  /\ reviewArg = NoReview
  /\ rendered = <<>>
  /\ now = 0
  /\ lastActivity = 0
  /\ client = NoClient

\* the request is handled: the response is written, the idle timer and the
\* grace-delay timers are what the handler left
HandleOne ==
  /\ pc = "receiving"
  /\ pc' = "handled"
  /\ fnResult' = HandleRequest(fnArg)
  /\ Handled(HandleRequest(fnArg).response)
  /\ timeoutId' = HandleRequest(fnArg).timeoutId
  /\ graceTimers' = graceTimers \o HandleRequest(fnArg).scheduled
  /\ UNCHANGED <<aborted, settled, gen, fnArg>>
  /\ UNCHANGED <<plan, resolved, server, files, threw, httpServer, hist, reviewArg, rendered,
                 now, lastActivity, client>>

RequestNext == HandleOne

RequestSpec == RequestInit /\ [][RequestNext]_vars

\* C35: for every request the response and the state change (idle timer,
\* scheduled callback) are the same whether the session parameter is
\* absent, the session token or another value.
C35_TokenIsNotAccessControl ==
  [][(pc = "receiving" /\ pc' = "handled") =>
       \A session \in SessionParams :
         /\ HandleRequest([fnArg EXCEPT !.session = session]) = fnResult'
         /\ lastExchange' = fnResult'.response
         /\ timeoutId' = fnResult'.timeoutId
         /\ graceTimers' = graceTimers \o fnResult'.scheduled]_vars

\* a POST /submit that carries another value than the session token was
\* acknowledged, its callback is scheduled and the idle timer is stopped
C35_Witness ==
  /\ pc = "handled"
  /\ fnArg.session = "other"
  /\ fnArg.method = "POST"
  /\ fnArg.path = "/submit"
  /\ fnArg.timeoutId = resetTimeout
  /\ lastExchange.status = 200
  /\ timeoutId = Off
  /\ Len(graceTimers) = 1

\* ===== Specification of the phase selection of the review page =====

\* phase numbers a proposal can carry: integers of one and of two digits,
\* zero and a negative one
NumberValues == {-1, 0, 1, 2, 12}

DigitChars == <<"0", "1", "2", "3", "4", "5", "6", "7", "8", "9">>

\* `${n}` for an integer n >= 0
RECURSIVE Decimal(_)
Decimal(n) ==
  IF n < 10 THEN <<DigitChars[n + 1]>>
  ELSE Decimal(n \div 10) \o <<DigitChars[(n % 10) + 1]>>

\* `${phase.number}`: the value attribute of a checkbox
NumberToString(n) == IF n < 0 THEN <<"-">> \o Decimal(-n) ELSE Decimal(n)

NaN == "NaN"

IsDigit(c) == \E d \in 1..10 : DigitChars[d] = c
DigitValue(c) == (CHOOSE d \in 1..10 : DigitChars[d] = c) - 1

\* the value of the longest prefix of str made of digits, after acc
RECURSIVE ParseDigits(_, _)
ParseDigits(str, acc) ==
  IF str = <<>> \/ ~IsDigit(Head(str)) THEN acc
  ELSE ParseDigits(Tail(str), acc * 10 + DigitValue(Head(str)))

\* parseInt(str, 10): an optional sign, then digits up to the first other
\* character; NaN when there is no digit
ParseInt(str) ==
  LET neg == str /= <<>> /\ Head(str) = "-"
      rest == IF str /= <<>> /\ Head(str) \in {"-", "+"} THEN Tail(str) ELSE str
  IN IF rest = <<>> \/ ~IsDigit(Head(rest)) THEN NaN
     ELSE IF neg THEN 0 - ParseDigits(rest, 0) ELSE ParseDigits(rest, 0)

\* setupPhaseCheckboxes: the value attributes of the checkboxes it renders,
\* none when the proposal has at most one phase
setupPhaseCheckboxes(numbers) ==
  IF Len(numbers) <= 1 THEN <<>>
  ELSE [i \in 1..Len(numbers) |-> NumberToString(numbers[i])]

\* the boxes of `boxes` whose index is not in `unchecked`, in document order
RECURSIVE CheckedValues(_, _, _)
CheckedValues(boxes, unchecked, i) ==
  IF i > Len(boxes) THEN <<>>
  ELSE (IF i \in unchecked THEN <<>> ELSE <<boxes[i]>>) \o CheckedValues(boxes, unchecked, i + 1)

\* Array.from(document.querySelectorAll('input[name="phases"]:checked'))
\*   .map(cb => parseInt(cb.value, 10))
selectedPhases(boxes, unchecked) ==
  LET values == CheckedValues(boxes, unchecked, 1)
  IN [i \in 1..Len(values) |-> ParseInt(values[i])]

\* a selection sent as it is
SubmittedPhases_noDefault(selected, numbers) == selected

\* selectedPhases.length > 0 ? selectedPhases : plan.phases.map(p => p.number)
SubmittedPhases(selected, numbers) == IF Len(selected) > 0 THEN selected ELSE numbers

\* the page shows a proposal with the phase numbers `numbers`, and the user
\* has unchecked the boxes `unchecked` (all are rendered checked)
SelectionInit ==
  /\ pc = "reviewing"
  /\ fnArg \in {[numbers |-> ns, unchecked |-> u] :
                  ns \in SeqsUpTo(NumberValues, MaxPhases),
                  u \in SUBSET (1..MaxPhases)}
  /\ fnArg.unchecked \subseteq 1..Len(setupPhaseCheckboxes(fnArg.numbers))
  /\ fnResult = <<>>
  /\ gen = GenDone
  /\ plan = SessionPlan
  /\ resolved = FALSE
  /\ server = TRUE
  /\ settled = NoResult
  /\ files = <<>>
  /\ threw = FALSE
  /\ aborted = FALSE
  /\ httpServer = "listening"
  /\ timeoutId = resetTimeout
  /\ graceTimers = <<>>
  /\ conn = FALSE
  /\ nReq = 0
  /\ lastExchange = NoExchange
  /\ hist = Rearmed(InitHist, Off)
  /\ reviewArg = NoReview
  /\ rendered = <<>>
  /\ now = 0
  /\ lastActivity = 0
  /\ client = NoClient

\* handleSubmit up to the body of its request: result.selectedPhases
handleSubmit ==
  /\ pc = "reviewing"
  /\ pc' = "submitting"
  /\ fnResult' = SubmittedPhases(selectedPhases(setupPhaseCheckboxes(fnArg.numbers), fnArg.unchecked),
                                 fnArg.numbers)
  /\ UNCHANGED <<aborted, settled, gen, fnArg>>
  /\ UNCHANGED <<plan, resolved, server, files, threw, httpServer, timeoutId, graceTimers, conn,
                 nReq, lastExchange, hist, reviewArg, rendered, now, lastActivity, client>>

SelectionNext == handleSubmit

SelectionSpec == SelectionInit /\ [][SelectionNext]_vars

\* the phase numbers of the boxes left checked, in order
RECURSIVE CheckedNumbers(_, _, _)
CheckedNumbers(numbers, unchecked, i) ==
  IF i > Len(numbers) THEN <<>>
  ELSE (IF i \in unchecked THEN <<>> ELSE <<numbers[i]>>) \o CheckedNumbers(numbers, unchecked, i + 1)

\* C36: for a proposal with at least one phase the selectedPhases that
\* handleSubmit sends is a non-empty subset of the phase numbers: the
\* checked boxes when one is checked, all phase numbers when none is
\* checked or the selection block is hidden (at most one phase).
C36_NeverEmptySelection ==
  (pc = "submitting" /\ Len(fnArg.numbers) >= 1) =>
    LET numbers == fnArg.numbers
        allUnchecked == fnArg.unchecked = 1..Len(numbers)
    IN /\ Len(fnResult) > 0
       /\ \A i \in 1..Len(fnResult) : Includes(numbers, fnResult[i])
       /\ (Len(numbers) > 1 /\ ~allUnchecked)
            => fnResult = CheckedNumbers(numbers, fnArg.unchecked, 1)
       /\ (Len(numbers) = 1 \/ allUnchecked) => fnResult = numbers

\* every box of a proposal with several phases was unchecked, and all
\* phase numbers were sent
C36_Witness ==
  /\ pc = "submitting"
  /\ Len(fnArg.numbers) = 3
  /\ fnArg.unchecked = {1, 2, 3}
  /\ fnResult = fnArg.numbers
  /\ fnResult[1] = 12
  /\ fnResult[2] = -1

\* ===== Specification of the heartbeat of the review page =====

MaxBeats == 2
MaxClicks == 3

\* the period of setInterval in startHeartbeat (ms)
HeartbeatMs == 10000

\* the page: heartbeatInterval (TRUE: an interval id, FALSE: null), the
\* intervals that are set and not cleared with their period, the calls of
\* setInterval, the heartbeat requests started, the overlay shown, the
\* requests in flight, and what was answered so far
Page(stage) ==
  [stage |-> stage, heartbeatInterval |-> FALSE, active |-> 0, period |-> 0, intervals |-> 0,
   beats |-> 0, overlay |-> "none", submits |-> 0, cancels |-> 0, clicks |-> 0,
   okSubmits |-> 0, notOkSubmits |-> 0, failed |-> 0, cancelsDone |-> 0]

\* a stopTimers that forgets the interval without clearing it
stopTimers_keeps(c) == [c EXCEPT !.heartbeatInterval = FALSE]

\* stopTimers: if (heartbeatInterval) { clearInterval(heartbeatInterval);
\* heartbeatInterval = null; }
stopTimers(c) ==
  IF c.heartbeatInterval
  THEN [c EXCEPT !.active = @ - 1, !.heartbeatInterval = FALSE]
  ELSE c

\* startHeartbeat: heartbeatInterval = setInterval(..., 10000)
startHeartbeat(c) ==
  [c EXCEPT !.heartbeatInterval = TRUE, !.active = @ + 1, !.intervals = @ + 1,
            !.period = HeartbeatMs]

\* showOverlay(type)
showOverlay(c, type) == [c EXCEPT !.overlay = IF type = "success" THEN "success" ELSE "cancel"]

ClientInit ==
  /\ pc = "page"
  /\ client = Page("loading")
  /\ fnArg = <<>>
  /\ fnResult = <<>>
  /\ gen = GenDone
  /\ plan = SessionPlan
  /\ resolved = FALSE
  /\ server = TRUE
  /\ settled = NoResult
  /\ files = <<>>
  /\ threw = FALSE
  /\ aborted = FALSE
  /\ httpServer = "listening"
  /\ timeoutId = resetTimeout
  /\ graceTimers = <<>>
  /\ conn = FALSE
  /\ nReq = 0
  /\ lastExchange = NoExchange
  /\ hist = Rearmed(InitHist, Off)
  /\ reviewArg = NoReview
  /\ rendered = <<>>
  /\ now = 0
  /\ lastActivity = 0

clientOnly ==
  <<pc, plan, resolved, server, settled, files, threw, aborted, httpServer, timeoutId,
    graceTimers, conn, nReq, lastExchange, hist, reviewArg, rendered, now, lastActivity,
    gen, fnArg, fnResult>>

\* init(): renderPlan, setupPhaseCheckboxes, setupEventListeners, startHeartbeat
init ==
  /\ client.stage = "loading"
  /\ client' = [startHeartbeat(client) EXCEPT !.stage = "ready"]
  /\ UNCHANGED clientOnly

\* the interval fires: fetch('/heartbeat') is started
HeartbeatFires ==
  /\ client.active > 0
  /\ client.beats < MaxBeats
  /\ client' = [client EXCEPT !.beats = @ + 1]
  /\ UNCHANGED clientOnly

\* handleSubmit up to `await fetch('/submit', ...)`
SubmitClicked ==
  /\ client.stage = "ready"
  /\ client.clicks < MaxClicks
  /\ client' = [client EXCEPT !.submits = @ + 1, !.clicks = @ + 1]
  /\ UNCHANGED clientOnly

\* the fetch of handleSubmit settles: an OK response, a response that is
\* not OK, or a rejection
SubmitAnswered ==
  /\ client.submits > 0
  /\ \E answer \in {"ok", "notOk", "failed"} :
       client' = IF answer = "ok"
                 THEN [stopTimers(showOverlay(client, "success"))
                         EXCEPT !.submits = @ - 1, !.okSubmits = @ + 1]
                 ELSE IF answer = "notOk"
                 THEN [client EXCEPT !.submits = @ - 1, !.notOkSubmits = @ + 1]
                 ELSE [client EXCEPT !.submits = @ - 1, !.failed = @ + 1]
  /\ UNCHANGED clientOnly

\* handleCancel up to `await fetch('/cancel', { method: 'POST' })`
CancelClicked ==
  /\ client.stage = "ready"
  /\ client.clicks < MaxClicks
  /\ client' = [client EXCEPT !.cancels = @ + 1, !.clicks = @ + 1]
  /\ UNCHANGED clientOnly

\* the fetch of handleCancel settles: with a response of any status, or
\* with a rejection
CancelAnswered ==
  /\ client.cancels > 0
  /\ \E completes \in BOOLEAN :
       client' = IF completes
                 THEN [stopTimers(showOverlay(client, "cancel"))
                         EXCEPT !.cancels = @ - 1, !.cancelsDone = @ + 1]
                 ELSE [client EXCEPT !.cancels = @ - 1, !.failed = @ + 1]
  /\ UNCHANGED clientOnly

ClientNext ==
  \/ init \/ HeartbeatFires \/ SubmitClicked \/ SubmitAnswered \/ CancelClicked \/ CancelAnswered

ClientSpec == ClientInit /\ [][ClientNext]_vars

\* C37: the page starts exactly one heartbeat interval, of 10 s, at init;
\* once a submit was answered OK or a cancel request has completed it
\* starts no heartbeat request; a submit answered with a status that is
\* not OK leaves the heartbeat and the overlay as they were.
C37_ClientHeartbeatLifecycle ==
  /\ [](client.stage = "ready"
          => (client.intervals = 1 /\ client.period = HeartbeatMs /\ client.active <= 1))
  /\ [](client.stage = "loading" => (client.intervals = 0 /\ client.beats = 0))
  /\ [][client'.beats > client.beats
          => (client.okSubmits = 0 /\ client.cancelsDone = 0)]_vars
  /\ [][client'.notOkSubmits > client.notOkSubmits
          => /\ client'.active = client.active
             /\ client'.heartbeatInterval = client.heartbeatInterval
             /\ client'.overlay = client.overlay]_vars

\* heartbeats ran, a submit was answered 400 and left them running, and a
\* second submit was answered OK and stopped them
C37_Witness ==
  /\ client.beats = 2
  /\ client.notOkSubmits = 1
  /\ client.okSubmits = 1
  /\ client.overlay = "success"
  /\ client.active = 0
  /\ client.intervals = 1

\* C38: close() of the server handle is called at most once in a review
\* session, on every path and combination of paths: finish, launch
\* failure, server error.
C38_CloseAtMostOnce ==
  /\ hist.closeCalls <= 1
  /\ hist.closeCalls = 1 => ~server

\* the launch-failure path closed the handle and finish ran afterwards
C38_Witness ==
  /\ pc = "launchFailed"
  /\ hist.finishPasses = 1
  /\ resolved
  /\ hist.closeCalls = 1

\* after the loader was aborted ctx.ui.custom never resolves with a proposal
AbortedLoaderDeliversNoPlan ==
  gen.loaderAborted => gen.result /= "plan"

\* C39: done, the completion callback of the loader, is invoked exactly
\* once per call of generatePlan, in every interleaving of the abort of
\* the loader with the end of the text-generation call, and after an
\* abort delivered null no completion delivers a proposal.
C39_DoneExactlyOnce ==
  /\ gen.doneCalls <= 1
  /\ gen.stage = "done" => gen.doneCalls = 1
  /\ AbortedLoaderDeliversNoPlan

====
